---- MODULE Spec2Model ----
(***************************************************************************)
(* Contest coordinator and judging pipeline of AI-Agents-Arena             *)
(* (ContestManager): the in-memory registry of active contests, submission *)
(* intake, the Redis job queue and result subscription, the worker loop,   *)
(* the verdict ingestion loop and the ICPC scoring rules.                  *)
(*                                                                         *)
(* The repository carries two copies of package coordinator.  Variant "A"  *)
(* (agent-manager aware) releases the registry lock inside StopContest,    *)
(* cancels pending submissions, broadcasts after every verdict and         *)
(* re-reads the contest state in the verdict handler; variant "B" runs     *)
(* StopContest under the lock.  The variable `variant` fixes which copy is *)
(* linked in.                                                              *)
(*                                                                         *)
(* Every call of the program is a task with a position (pc).  One step of  *)
(* a task is one operation on state shared with other tasks: one database  *)
(* statement on a table the model tracks, one Redis command, one channel   *)
(* operation, or one section under the registry lock (map operations and   *)
(* at most a read of columns that are never updated).  Clock reads, local  *)
(* computation and statements on tables the model does not track (test     *)
(* cases) belong to the step next to them.  Of contest_problems the model  *)
(* tracks which rows exist, not their problem_order.                       *)
(*                                                                         *)
(* Time is in milliseconds.                                                *)
(***************************************************************************)
EXTENDS Integers, Sequences, FiniteSets, TLC

\* ---------------------------------------------------------------- bounds
NumContests == 2
NumParticipants == 1
NumProblems == 2
MaxSubmissions == 3
NumWorkers == 1
MaxTicks == 2
TickMs == 150500
\* a second clock step, which lands on a contest's ends_at
BoundaryTickMs == 300000
MaxRedeliveries == 1
\* repeated deliveries in a burst that overruns the results buffer
MaxBurst == 12
MaxConcurrentContests == 1
MaxSubscribers == 1
\* participants of the contest a leaderboard query is made for
MaxRanked == 3
\* leaderboard queries made over the same rows
MaxQueries == 2
\* test cases of the problem a job is judged against
MaxTestCases == 3
\* a registry that holds two contests at once
RollbackCapacity == 2
\* workers of the pool that dequeue side by side
NumPoolWorkers == 2
\* the clock step under which the worker registry is observed, and the
\* number of such steps
PoolTickMs == 30000
MaxPoolTicks == 5
\* GetActiveWorkers calls made in one run
MaxWorkerQueries == 1
\* length of the outputs a test case is judged on, and the memory limit of
\* its problem
MaxOutputLen == 3
MemoryLimitMb == 1
\* facade requests rejected in one run, and the problem ids of a request
MaxRejected == 2
MaxProblemIds == 2
\* explicit StopContest calls made for a contest
MaxStopCalls == 2
\* StartContest calls made for a contest by callers other than CreateContest
MaxRestarts == 1
\* ProcessSubmission calls made again for a submission
MaxRetries == 1

\* ------------------------------------------------------ program constants
ContestDurationMs == 300000
PenaltyPerAttempt == 60
ResultChanCap == 10
UpdateChanCap == 10
MsPerSecond == 1000
LiveWindowMs == 30000
StaleAfterMs == 120000
KbPerMb == 1024

Contests == 1..NumContests
ParticipantIdx == 1..NumParticipants
Problems == 1..NumProblems
SubmissionIds == 1..MaxSubmissions
Workers == 1..NumWorkers
PoolWorkers == 1..NumPoolWorkers
ChanIds == 1..MaxSubscribers
RankedIds == 1..MaxRanked
\* The ContestInstance values StartContest makes for one contest id, in the
\* order of their making.
Instances == 1..(MaxRestarts + 1)
ParticipantKeys == Contests \X ParticipantIdx
ResultKeys == Contests \X ParticipantIdx \X Problems

\* ----------------------------------------------------------- enumerations
NonTerminalStatuses == {"PENDING", "COMPILING", "RUNNING"}
UserFaultStatuses ==
    {"WRONG_ANSWER", "PRESENTATION_ERROR", "TIME_LIMIT_EXCEEDED",
     "MEMORY_LIMIT_EXCEEDED", "RUNTIME_ERROR", "COMPILATION_ERROR",
     "OUTPUT_LIMIT_EXCEEDED"}
TerminalStatuses == {"ACCEPTED", "JUDGEMENT_FAILED"} \cup UserFaultStatuses
SubmissionStatuses == NonTerminalStatuses \cup TerminalStatuses
ProblemStatuses == {"NON_TRIED", "TRIED", "ACCEPTED"}
\* The verdicts a worker publishes in this model: accepted, one user fault,
\* and the platform failure of WorkerService.processJob.
WorkerVerdicts == {"ACCEPTED", "WRONG_ANSWER", "JUDGEMENT_FAILED"}
Variants == {"A", "B"}
\* The Executor implementations: DockerExecutor, DirectExecutor, and the
\* second copy of DirectExecutor, whose test loops have no break.
Executors == {"docker", "direct", "direct2"}
Languages == {"CPP", "PYTHON"}
TestCaseStatuses ==
    {"PASSED", "WRONG_ANSWER", "TIME_LIMIT_EXCEEDED", "MEMORY_LIMIT_EXCEEDED",
     "RUNTIME_ERROR", "PRESENTATION_ERROR"}
\* What running one test case gives: a TestCaseResult with one of the
\* statuses, or an error of executeTestCase.
TestOutcomes == TestCaseStatuses \cup {"ERROR"}


VARIABLES
    variant,          \* which copy of package coordinator runs
    now,              \* wall clock, ms
    tickMs,           \* the step by which the clock is observed to advance
    contests,         \* persisted Contest rows
    participants,     \* persisted Participant rows
    problemResults,   \* persisted ProblemResult rows
    submissions,      \* persisted Submission rows
    problems,         \* persisted Problem rows: whether each is stored
    contestProblems,  \* persisted contest_problems rows: <<contest, problem>>
    task,             \* position and locals of every call and goroutine
    mu,               \* ContestCoordinator.mu
    activeContests,   \* ContestCoordinator.activeContests
    stopChan,         \* ContestInstance.stopChan of every instance made
    panicked,         \* the Go panic the coordinator process died of
    jobsQueue,        \* Redis list execution:jobs, head = LPUSH side
    worker,           \* position of each worker's processJobs loop, and its job
    published,        \* results the broker has carried
    pubsub,           \* messages of execution:results not yet forwarded
    resultChan,       \* ExecutionQueue result channel of the coordinator
    redeliveries,     \* number of repeated deliveries so far
    startResult,      \* return value of the last StartContest per contest
    ingestLog,        \* results handled so far, with the active check's outcome
    jobLog,           \* QueueExecution and DequeueExecution calls, in order
    leaderboardSubscribers,  \* ContestCoordinator.leaderboardSubscribers
    updateChans,      \* the channels made by SubscribeToLeaderboardUpdates
    streams,          \* the StreamLeaderboard call reading each channel
    maxConcurrentContests,   \* ContestCoordinator.maxConcurrentContests
    boardRows,        \* the participant rows a leaderboard query selects
    leaderboards,     \* the participant orders the queries have returned
    workerStatus,     \* Redis hash workers:status
    heartbeat,        \* position of each worker's HeartbeatWorker call
    activeWorkers,    \* results of the GetActiveWorkers calls made so far
    cleanup,          \* position of the CleanupStaleWorkers call
    executor,         \* the Executor the worker was built with
    execRequest,      \* the ExecutionRequest handed to Execute
    execResults,      \* the ExecutionResults Execute has returned
    rejected,         \* facade requests rejected at validation
    testRun,          \* what one run of the program on a test case did
    testResult        \* the status executeTestCase gave that run, "" before

vars == <<variant, now, tickMs, contests, participants, problemResults,
          submissions, problems, contestProblems, task, mu, activeContests,
          stopChan, panicked,
          jobsQueue, worker, published, pubsub, resultChan, redeliveries,
          startResult, ingestLog, jobLog,
          leaderboardSubscribers, updateChans, streams,
          maxConcurrentContests, boardRows, leaderboards,
          workerStatus, heartbeat, activeWorkers, cleanup,
          rejected,
          executor, execRequest, execResults, testRun, testResult>>

\* What the service is set up with: the copy linked in, the clock step and
\* the capacity.
setupVars == <<variant, tickMs, maxConcurrentContests>>
\* The problems stored, which no step of the service changes
\* (ProblemRepository.CreateProblem and DeleteProblem are called by tools
\* that work on the database), and their assignment to contests, which the
\* creation of a contest writes.
catalogueVars == <<problems, contestProblems>>
persistVars == <<contests, participants, problemResults, submissions>>
rankingVars == <<participants, problemResults>>
registryVars == <<activeContests, stopChan, leaderboardSubscribers>>
callVars == <<startResult, rejected, ingestLog>>
queueVars == <<jobsQueue, worker, published, pubsub, resultChan, redeliveries,
               jobLog>>
chanVars == <<updateChans, streams>>
queryVars == <<boardRows, leaderboards>>
testCaseVars == <<testRun, testResult>>
executorVars == <<executor, execRequest, execResults, testCaseVars>>
poolTaskVars == <<heartbeat, activeWorkers, cleanup>>
poolVars == <<workerStatus, poolTaskVars>>
\* What no step of the coordinator, the queue or the workers touches.
otherVars ==
    <<setupVars, catalogueVars, queryVars, executorVars, poolTaskVars>>

\* ------------------------------------------------------------- data model
NoContest == [state |-> "NONE", startedAt |-> 0, endsAt |-> 0]
\* The id of no stored submission.
UnknownSubmission == 0
NoSubmission ==
    [status |-> "NONE", message |-> "", contest |-> 0, participant |-> 0,
     problem |-> 0, submittedAt |-> 0]
\* No ProblemResult row is stored for the key.
NoProblemResult ==
    [status |-> "NONE", penaltyCount |-> 0, penaltySeconds |-> 0]
NewProblemResult ==
    [status |-> "NON_TRIED", penaltyCount |-> 0, penaltySeconds |-> 0]
\* No Participant row is stored for the key.
NoParticipant == [stored |-> FALSE, solved |-> 0, totalPenaltySeconds |-> 0]
NewParticipant == [stored |-> TRUE, solved |-> 0, totalPenaltySeconds |-> 0]
\* A row of a leaderboard query.
NoRankedRow == [solved |-> 0, totalPenaltySeconds |-> 0]
\* What GetParticipant gave updateParticipantStats: whether there is a row,
\* and the participant's ProblemResults as preloaded with it.
NoRead == [found |-> FALSE, results |-> << >>]
NoChan == [contest |-> 0, buf |-> << >>, closed |-> FALSE]
NoStream == [sent |-> << >>, done |-> FALSE]
\* models.WorkerStatus as stored in the hash; "absent" when the hash has no
\* field for the worker.
NoWorkerStatus == [status |-> "absent", lastPing |-> 0, currentJob |-> 0]
IdleHeartbeat == [pc |-> "idle", status |-> NoWorkerStatus]
IdleCleanup == [pc |-> "idle", workers |-> << >>, cutoff |-> 0, todo |-> {}]
\* A worker between two jobs.
IdleWorker == [pc |-> "idle", job |-> 0]
\* The characters of the outputs: a letter, a space and a newline.
Chars == {"a", " ", "\n"}
Whitespace == {" ", "\n"}
Outputs == UNION {[1..n -> Chars] : n \in 0..MaxOutputLen}
NoTestRun ==
    [timedOut |-> FALSE, exitCode |-> 0, memoryUsedKb |-> 0,
     output |-> << >>, expectedOutput |-> << >>]
NoRequest == [language |-> "", compiles |-> TRUE, outcomes |-> << >>]
\* A problem id of a CreateContestWithProblems request: a string uuid.Parse
\* refuses, a well-formed id that no problem ever had, or the id of one of
\* the problems.
ProblemIds ==
    {[kind |-> k, problem |-> 0] : k \in {"malformed", "unknown"}}
    \cup {[kind |-> "valid", problem |-> q] : q \in Problems}
ProblemIdLists == UNION {[1..n -> ProblemIds] : n \in 0..MaxProblemIds}

\* The process runs; the run-time errors it can die of (nothing in the
\* program recovers a panic).
NoPanic == ""
NilDereference == "invalid memory address or nil pointer dereference"
CloseOfClosedChannel == "close of closed channel"

\* The tasks of the coordinator process.  <<"create", c, 0>> is the
\* CreateContest (or CreateContestWithProblems) request that stores contest
\* c; <<"start", c, 0>> and <<"stop", c, 0>> are StartContest and
\* StopContest calls made for c from outside; <<"run", c, g>> is the run
\* goroutine of the g-th instance made for c; <<"submit", i, 0>> is the
\* SubmitSolution request that stores submission i, and the ProcessSubmission
\* calls made for i; <<"subscribe", ch, 0>> is the StreamLeaderboard request
\* that makes channel ch; <<"get", c, 0>> is a GetContest request for c;
\* <<"ingest", 0, 0>> is processExecutionResults.
Ingest == <<"ingest", 0, 0>>
Tasks ==
    ({"create", "start", "stop", "get"} \X Contests \X {0})
    \cup ({"run"} \X Contests \X Instances)
    \cup ({"submit"} \X SubmissionIds \X {0})
    \cup ({"subscribe"} \X ChanIds \X {0})
    \cup {Ingest}
NoHolder == <<"none", 0, 0>>
\* sync.RWMutex: the writer holding it, the writer that has announced itself
\* in Lock() and waits for the readers to leave, the readers holding it, and
\* the readers held back in RLock() by that writer.
NoLock ==
    [writer |-> NoHolder, pending |-> NoHolder, readers |-> {},
     blocked |-> {}]
\* A task that is in no call.  pc is its position; calls the calls it has
\* made; ret what its last call returned.  The locals of the call: arg the
\* contest id it was given, inst the instance it made or found, sub,
\* participant and problem the submission it is about, status the verdict,
\* startedAt the instance's StartedAt, read the participant as loaded, subs
\* and at the subscriber list and time stamp of the update being broadcast,
\* n the turn of the loop it is in, ids the problem ids of the request,
\* problemList the problems loaded for the contest in the order of the loops
\* (0 for a nil *models.Problem),
\* found whether GetSubmission gave a submission (nil otherwise),
\* submittedAt the SubmittedAt of that submission, endsAt the EndsAt of the
\* instance.
IdleTask ==
    [pc |-> "idle", calls |-> 0, ret |-> "", arg |-> 0, inst |-> 0,
     sub |-> 0, participant |-> 0, problem |-> 0, status |-> "",
     startedAt |-> 0, read |-> NoRead, subs |-> << >>, at |-> 0, n |-> 0,
     ids |-> << >>, problemList |-> << >>, found |-> FALSE,
     submittedAt |-> 0, endsAt |-> 0]
\* A run goroutine that has not been launched.
NoTask == [IdleTask EXCEPT !.pc = "none"]

\* ExecutionQueue.updateWorkerStatus: the value HSET stores.
WorkerStatus(status, t, currentJobID) ==
    [status |-> status, lastPing |-> t, currentJob |-> currentJobID]

Start(step, capacity, workers) ==
    /\ variant \in Variants
    /\ maxConcurrentContests = capacity
    /\ now = 0
    /\ tickMs = step
    /\ contests = [c \in Contests |-> NoContest]
    /\ participants = [k \in ParticipantKeys |-> NoParticipant]
    /\ problemResults = [k \in ResultKeys |-> NoProblemResult]
    /\ submissions = [i \in SubmissionIds |-> NoSubmission]
    /\ problems = [q \in Problems |-> TRUE]
    /\ contestProblems = {}
    /\ task = [t \in Tasks |-> IF t[1] = "run" THEN NoTask ELSE IdleTask]
    /\ mu = NoLock
    /\ activeContests = << >>
    /\ stopChan = [c \in Contests |-> [g \in Instances |-> "none"]]
    /\ panicked = NoPanic
    /\ jobsQueue = << >>
    /\ worker = [w \in workers |-> IdleWorker]
    /\ workerStatus = [w \in workers |-> WorkerStatus("idle", 0, 0)]
    /\ heartbeat = [w \in workers |-> IdleHeartbeat]
    /\ activeWorkers = << >>
    /\ cleanup = IdleCleanup
    /\ rejected = << >>
    /\ published = {}
    /\ pubsub = << >>
    /\ resultChan = << >>
    /\ redeliveries = 0
    /\ startResult = [c \in Contests |-> "none"]
    /\ ingestLog = << >>
    /\ jobLog = << >>
    /\ leaderboardSubscribers = << >>
    /\ updateChans = [ch \in ChanIds |-> NoChan]
    /\ streams = [ch \in ChanIds |-> NoStream]

\* No leaderboard query has been made.
NoQuery ==
    /\ boardRows = [id \in RankedIds |-> NoRankedRow]
    /\ leaderboards = << >>

\* The executor has been given no request.
NoExecution ==
    /\ executor = "docker"
    /\ execRequest = NoRequest
    /\ execResults = << >>
    /\ testRun = NoTestRun
    /\ testResult = ""

Init == Start(TickMs, MaxConcurrentContests, Workers) /\ NoQuery /\ NoExecution

\* The same program observed with clock readings that fall on ends_at.
BoundaryInit ==
    Start(BoundaryTickMs, MaxConcurrentContests, Workers) /\ NoQuery /\ NoExecution

\* ------------------------------------------------------- pure functions
IsTerminal(status) == status \in TerminalStatuses

\* int32(d.Seconds()): a millisecond duration as whole seconds, truncated
\* toward zero.
DurationSeconds(ms) ==
    IF ms >= 0 THEN ms \div MsPerSecond ELSE -((-ms) \div MsPerSecond)

\* StartContest: the admission test made under the write lock.
RegistryFullOffByOne(active) ==
    Cardinality(DOMAIN active) > maxConcurrentContests

RegistryFull(active) ==
    Cardinality(DOMAIN active) >= maxConcurrentContests

\* handleExecutionResult: the condition under which updateParticipantStats
\* is called once the contest was found active.  Both variants call it for
\* ACCEPTED results only.
NeedsStatsUpdateAnyVerdict(status) == TRUE

NeedsStatsUpdate(status) == status = "ACCEPTED"

\* handleExecutionResult, variant A only: skip when the persisted contest is
\* already FINISHED.
SkipsFinished(v, contestState) == v = "A" /\ contestState = "FINISHED"

\* updateParticipantStats: the new ProblemResult row.
UpdatedProblemResultOverwrite(pr, status, submittedAt, contestStartTime) ==
    IF status = "ACCEPTED"
    THEN [pr EXCEPT !.status = "ACCEPTED",
                    !.penaltySeconds =
                        DurationSeconds(submittedAt - contestStartTime)]
    ELSE [pr EXCEPT !.status = IF @ = "NON_TRIED" THEN "TRIED" ELSE @,
                    !.penaltyCount = @ + 1]

UpdatedProblemResult(pr, status, submittedAt, contestStartTime) ==
    IF status = "ACCEPTED" /\ pr.status # "ACCEPTED"
    THEN [pr EXCEPT !.status = "ACCEPTED",
                    !.penaltySeconds =
                        DurationSeconds(submittedAt - contestStartTime)]
    ELSE IF status # "ACCEPTED"
         THEN [pr EXCEPT !.status = IF @ = "NON_TRIED" THEN "TRIED" ELSE @,
                         !.penaltyCount = @ + 1]
         ELSE pr

\* updateParticipantStats: the aggregates recomputed over the participant's
\* ProblemResults, problems 1..q.
RECURSIVE SolvedUpTo(_, _, _, _)
SolvedUpTo(prs, c, p, q) ==
    IF q = 0 THEN 0
    ELSE SolvedUpTo(prs, c, p, q - 1)
         + (IF prs[<<c, p, q>>].status = "ACCEPTED" THEN 1 ELSE 0)

RECURSIVE PenaltyUpTo(_, _, _, _)
PenaltyUpTo(prs, c, p, q) ==
    IF q = 0 THEN 0
    ELSE PenaltyUpTo(prs, c, p, q - 1)
         + (IF prs[<<c, p, q>>].status = "ACCEPTED"
            THEN prs[<<c, p, q>>].penaltySeconds
                 + prs[<<c, p, q>>].penaltyCount * PenaltyPerAttempt
            ELSE 0)


\* updateParticipantStats: solved and total_penalty_seconds recomputed over
\* the participant's ProblemResults.
RecomputedStats(prs, c, p) ==
    [solved |-> SolvedUpTo(prs, c, p, NumProblems),
     totalPenaltySeconds |-> PenaltyUpTo(prs, c, p, NumProblems)]

\* ContestRepository.GetContest: the row, or nil with a nil error when there
\* is no row with the id (gorm.ErrRecordNotFound).
GetContest(rows, c) ==
    IF rows[c].state # "NONE"
    THEN [found |-> TRUE, row |-> rows[c]]
    ELSE [found |-> FALSE, row |-> NoContest]

\* ContestRepository.UpdateContestState: UPDATE contests SET state = ? WHERE
\* id = ?, whatever the state was; no row is updated, and no error
\* returned, when there is none with the id.
UpdateContestStateReopen(rows, c, state) ==
    IF rows[c].state = "NONE" THEN rows
    ELSE [rows EXCEPT ![c].state = IF @ = state THEN "RUNNING" ELSE state]

UpdateContestState(rows, c, state) ==
    IF rows[c].state = "NONE" THEN rows
    ELSE [rows EXCEPT ![c].state = state]

\* SubmissionRepository.UpdateSubmissionStatus: an unconditional update of
\* status and verdict_message of the row with the id; no row is updated,
\* and no error returned, when there is none.
UpdateSubmissionStatus(subs, id, status, message) ==
    IF id \notin DOMAIN subs \/ subs[id].status = "NONE" THEN subs
    ELSE [subs EXCEPT ![id].status = status, ![id].message = message]

\* SubmissionRepository.GetSubmission: the row, or nil with a nil error when
\* there is no row with the id (gorm.ErrRecordNotFound).
GetSubmission(subs, id) ==
    IF id \in DOMAIN subs /\ subs[id].status # "NONE"
    THEN [found |-> TRUE, row |-> subs[id]]
    ELSE [found |-> FALSE, row |-> NoSubmission]

\* SubmissionRepository.CancelPendingSubmissions (called by variant A's
\* StopContest): every PENDING submission of the contest becomes
\* JUDGEMENT_FAILED with message "contest ended".
CancelPendingSubmissions(subs, c) ==
    [i \in SubmissionIds |->
        IF subs[i].contest = c /\ subs[i].status = "PENDING"
        THEN [subs[i] EXCEPT !.status = "JUDGEMENT_FAILED",
                             !.message = "contest ended"]
        ELSE subs[i]]

\* ParticipantRepository.GetParticipant with Preload("ProblemResults"): the
\* row and the participant's ProblemResults, or nil when there is no row.
GetParticipant(rows, prs, c, p) ==
    IF rows[<<c, p>>].stored
    THEN [found |-> TRUE,
          results |-> [q \in Problems |-> prs[<<c, p, q>>]]]
    ELSE NoRead

\* ParticipantRepository.UpdateParticipantStats: an update of the two
\* counters of the row with the id, if there is one.
UpdateParticipantStats(rows, k, stats) ==
    IF rows[k].stored
    THEN [rows EXCEPT ![k].solved = stats.solved,
                      ![k].totalPenaltySeconds = stats.totalPenaltySeconds]
    ELSE rows

\* ProblemResultRepository.UpsertProblemResult: db.Save of the row.
UpsertProblemResult(prs, k, row) == [prs EXCEPT ![k] = row]

\* The foreign keys of a ProblemResult row: its participant and its problem
\* are stored.  The statement that writes the row fails otherwise.
ResultKeysHold(parts, probs, k) == parts[<<k[1], k[2]>>].stored /\ probs[k[3]]

\* The ProblemResults of participant (c, p) as a task holds them in memory,
\* laid out like the table.
InMemory(results, c, p) ==
    [k \in ResultKeys |->
        IF k[1] = c /\ k[2] = p /\ results # << >>
        THEN results[k[3]] ELSE NoProblemResult]

\* delete(c.activeContests, contestID)
Without(active, c) == [x \in DOMAIN active \ {c} |-> active[x]]

\* broadcastLeaderboardUpdate, the loop over the subscriber list that was
\* copied under the read lock: a non-blocking send of the update to every
\* channel of the list; a channel whose buffer is full misses the update.
Delivered(chans, subscribers, update) ==
    [ch \in ChanIds |->
        IF /\ \E j \in 1..Len(subscribers) : subscribers[j] = ch
           /\ Len(chans[ch].buf) < UpdateChanCap
        THEN [chans[ch] EXCEPT !.buf = Append(@, update)]
        ELSE chans[ch]]

\* broadcastLeaderboardUpdateForContest called at time t from call site by.
LeaderboardUpdate(c, t, by) == [contest |-> c, updatedAt |-> t, by |-> by]

\* The call has returned ret.
Returned(rec, ret) == [IdleTask EXCEPT !.calls = rec.calls, !.ret = ret]
\* The goroutine of the call has panicked where it stands.
Panicked(rec) == [rec EXCEPT !.pc = "panic"]
\* The run goroutine has returned.
Exited == [NoTask EXCEPT !.pc = "exited"]

OpenedChans == {ch \in ChanIds : updateChans[ch].contest # 0}
CreatedSubmissions == {i \in SubmissionIds : submissions[i].status # "NONE"}
CreatedContests == {c \in Contests : contests[c].state # "NONE"}

\* ------------------------------------------------------------ c.mu
\* sync.RWMutex.  Lock() returns when no writer and no reader holds the
\* mutex and no other writer has announced itself; RLock() returns unless a
\* writer holds the mutex or has announced itself in Lock(); Unlock() lets
\* in the readers that were held back meanwhile before any other writer.
CanLock(m, t) ==
    /\ m.writer = NoHolder
    /\ m.pending \in {NoHolder, t}
    /\ m.readers = {}

CanRLock(m, t) ==
    \/ t \in m.readers
    \/ m.writer = NoHolder /\ m.pending = NoHolder

Locked(m, t) == [m EXCEPT !.writer = t, !.pending = NoHolder]
Unlocked(m) ==
    [writer |-> NoHolder, pending |-> NoHolder, readers |-> m.blocked,
     blocked |-> {}]
RUnlocked(m, t) == [m EXCEPT !.readers = @ \ {t}]

\* The positions at which a task calls c.mu.Lock() and c.mu.RLock().
WriteSites == {"start-lock", "start-rollback", "stop-lock", "stop-delete",
               "subscribe-lock"}
ReadSites == {"submit-lookup", "ingest-lookup", "bcast-rlock"}

\* c.mu.Lock() while readers hold the mutex: the writer announces itself
\* and waits for them to leave; from now on RLock() is held back.
LockPending(t) ==
    /\ panicked = NoPanic
    /\ task[t].pc \in WriteSites
    /\ mu.writer = NoHolder
    /\ mu.pending = NoHolder
    /\ mu.readers # {}
    /\ mu' = [mu EXCEPT !.pending = t]
    /\ UNCHANGED <<otherVars, workerStatus, now, persistVars, task,
                   registryVars, panicked, queueVars, callVars, chanVars>>

\* c.mu.RLock() while a writer holds the mutex or has announced itself: the
\* reader is queued, to be let in by that writer's Unlock().
RLockBlocked(t) ==
    /\ panicked = NoPanic
    /\ task[t].pc \in ReadSites
    /\ t \notin mu.readers
    /\ t \notin mu.blocked
    /\ mu.writer # NoHolder \/ mu.pending # NoHolder
    /\ mu' = [mu EXCEPT !.blocked = @ \cup {t}]
    /\ UNCHANGED <<otherVars, workerStatus, now, persistVars, task,
                   registryVars, panicked, queueVars, callVars, chanVars>>

\* ------------------------------------------------------------------ clock
Tick ==
    /\ now + tickMs <= MaxTicks * tickMs
    /\ now' = now + tickMs
    /\ UNCHANGED <<otherVars, workerStatus, persistVars, task, mu,
                   registryVars, panicked, queueVars, callVars, chanVars>>

\* What no step of the coordinator changes.
coordFrame == <<otherVars, workerStatus, now>>

\* ------------------------------------------------------ leaderboard update
\* The call sites of broadcastLeaderboardUpdateForContest.
Broadcasters == {"start", "submit", "verdict", "stop"}

BroadcastSite(t) ==
    CASE t[1] \in {"create", "start"} -> "start"
      [] t[1] \in {"stop", "run"} -> "stop"
      [] t[1] = "submit" -> "submit"
      [] OTHER -> "verdict"

\* Where the caller goes on when broadcastLeaderboardUpdateForContest has
\* returned: StartContest launches the run goroutine, StopContest (variant
\* A) takes the lock to delete, ProcessSubmission (variant A) enqueues, and
\* handleExecutionResult returns.
AfterBroadcast(t, rec) ==
    CASE t[1] \in {"create", "start"} ->
            [rec EXCEPT !.pc = "start-run", !.subs = << >>, !.at = 0]
      [] t[1] \in {"stop", "run"} ->
            [rec EXCEPT !.pc = "stop-delete", !.subs = << >>, !.at = 0]
      [] t[1] = "submit" ->
            [rec EXCEPT !.pc = "submit-queue", !.subs = << >>, !.at = 0]
      [] OTHER -> Returned(rec, "")

\* broadcastLeaderboardUpdateForContest, first part: GetParticipantsByContest
\* and the time stamp of the update.  When the query fails the error is
\* returned and nothing is sent; StartContest then rolls back, the other
\* callers log the error and go on.
BroadcastBuild(t, failed) ==
    /\ panicked = NoPanic
    /\ task[t].pc = "broadcast"
    /\ task' = [task EXCEPT ![t] =
          IF ~failed THEN [@ EXCEPT !.pc = "bcast-rlock", !.at = now]
          ELSE IF t[1] \in {"create", "start"}
          THEN [@ EXCEPT !.pc = "start-rollback"]
          ELSE AfterBroadcast(t, @)]
    /\ UNCHANGED <<coordFrame, persistVars, mu, registryVars, panicked,
                   queueVars, callVars, chanVars>>

\* broadcastLeaderboardUpdate, under the read lock: the contest's subscriber
\* list is copied; the call returns at once when there is none.
BroadcastSnapshot(t) ==
    /\ panicked = NoPanic
    /\ task[t].pc = "bcast-rlock"
    /\ CanRLock(mu, t)
    /\ mu' = RUnlocked(mu, t)
    /\ task' = [task EXCEPT ![t] =
          IF task[t].arg \in DOMAIN leaderboardSubscribers
          THEN [@ EXCEPT !.pc = "bcast-send",
                         !.subs = leaderboardSubscribers[task[t].arg]]
          ELSE AfterBroadcast(t, @)]
    /\ UNCHANGED <<coordFrame, persistVars, registryVars, panicked,
                   queueVars, callVars, chanVars>>

\* broadcastLeaderboardUpdate, after the read lock was released: the sends
\* to the channels of the copied list.
BroadcastSend(t) ==
    /\ panicked = NoPanic
    /\ task[t].pc = "bcast-send"
    /\ updateChans' =
          Delivered(updateChans, task[t].subs,
                    LeaderboardUpdate(task[t].arg, task[t].at,
                                      BroadcastSite(t)))
    /\ task' = [task EXCEPT ![t] = AfterBroadcast(t, @)]
    /\ UNCHANGED <<coordFrame, persistVars, mu, registryVars, panicked,
                   queueVars, callVars, streams>>

\* ----------------------------------------------------- contest admission
\* The instance a StartContest for contest c makes next; 0 when the model's
\* supply is used up.
NextInstance(chans, c) ==
    IF \E g \in Instances : chans[c][g] = "none"
    THEN CHOOSE g \in Instances :
            chans[c][g] = "none" /\ \A h \in 1..(g - 1) : chans[c][h] # "none"
    ELSE 0

\* ContestCoordinator.StartContest called from outside for contest id c,
\* whether or not a contest with the id is stored or registered.
StartContestCall(c) ==
    /\ panicked = NoPanic
    /\ task[<<"start", c, 0>>].pc = "idle"
    /\ task[<<"start", c, 0>>].calls < MaxRestarts
    /\ task' = [task EXCEPT ![<<"start", c, 0>>] =
          [IdleTask EXCEPT !.pc = "start-lock", !.arg = c,
                           !.calls = task[<<"start", c, 0>>].calls + 1]]
    /\ UNCHANGED <<coordFrame, persistVars, mu, registryVars, panicked,
                   queueVars, callVars, chanVars>>

\* StartContest, rollback: delete(c.activeContests, contestID).
RolledBackKept(active, c) == active

RolledBack(active, c) == Without(active, c)

\* StartContest, the section under the write lock: the admission test; the
\* contest row is read (contest.StartedAt is a nil dereference, made with
\* the lock held, when there is no row); the instance is made and stored in
\* the registry under the contest id, in place of any instance that is
\* there; the lock is released.
StartContest(t) ==
    /\ panicked = NoPanic
    /\ t[1] \in {"create", "start"}
    /\ task[t].pc = "start-lock"
    /\ CanLock(mu, t)
    /\ LET c == task[t].arg
           contest == GetContest(contests, c)
           g == NextInstance(stopChan, c)
       IN IF RegistryFull(activeContests)
          THEN /\ startResult' = [startResult EXCEPT ![c] = "error"]
               /\ task' = [task EXCEPT ![t] = Returned(@, "error")]
               /\ mu' = Unlocked(mu)
               /\ UNCHANGED <<activeContests, stopChan, panicked>>
          ELSE IF ~contest.found
          THEN /\ panicked' = NilDereference
               /\ mu' = Locked(mu, t)
               /\ task' = [task EXCEPT ![t] = Panicked(@)]
               /\ UNCHANGED <<activeContests, stopChan, startResult>>
          ELSE /\ g # 0
               /\ activeContests' =
                    (c :> [startedAt |-> contest.row.startedAt,
                           endsAt |-> contest.row.endsAt, inst |-> g])
                    @@ activeContests
               /\ stopChan' = [stopChan EXCEPT ![c][g] = "open"]
               /\ task' = [task EXCEPT ![t] =
                     [@ EXCEPT !.pc = "broadcast", !.inst = g,
                               !.endsAt = contest.row.endsAt]]
               /\ mu' = Unlocked(mu)
               /\ UNCHANGED <<panicked, startResult>>
    /\ UNCHANGED <<coordFrame, persistVars, leaderboardSubscribers,
                   queueVars, rejected, ingestLog, chanVars>>

\* StartContest after a failed broadcast: the entry under the contest id is
\* deleted under the write lock, and the error returned; no run goroutine
\* is launched.
StartContestRollback(t) ==
    /\ panicked = NoPanic
    /\ t[1] \in {"create", "start"}
    /\ task[t].pc = "start-rollback"
    /\ CanLock(mu, t)
    /\ activeContests' = RolledBack(activeContests, task[t].arg)
    /\ mu' = Unlocked(mu)
    /\ startResult' = [startResult EXCEPT ![task[t].arg] = "error"]
    /\ task' = [task EXCEPT ![t] = Returned(@, "error")]
    /\ UNCHANGED <<coordFrame, persistVars, stopChan, leaderboardSubscribers,
                   panicked, queueVars, rejected, ingestLog, chanVars>>

\* StartContest, end: go instance.run(), and nil is returned.  The goroutine
\* keeps the instance, and with it the EndsAt copied from the contest row
\* when the instance was made.  A call from outside has returned;
\* CreateContest goes on to read the contest back.
StartContestRun(t) ==
    /\ panicked = NoPanic
    /\ t[1] \in {"create", "start"}
    /\ task[t].pc = "start-run"
    /\ startResult' = [startResult EXCEPT ![task[t].arg] = "ok"]
    /\ task' = [task EXCEPT
          ![t] = IF t[1] = "create" THEN [@ EXCEPT !.pc = "readback"]
                 ELSE Returned(@, "ok"),
          ![<<"run", task[t].arg, task[t].inst>>] =
              [NoTask EXCEPT !.pc = "ticking", !.arg = task[t].arg,
                             !.inst = task[t].inst,
                             !.endsAt = task[t].endsAt]]
    /\ UNCHANGED <<coordFrame, persistVars, mu, registryVars, panicked,
                   queueVars, rejected, ingestLog, chanVars>>

\* ContestService.GetContest, a request with a well-formed contest id: the
\* contest is looked up once with the result thrown away; only an error of
\* the query is returned.  Then getCompleteContestData is called.
GetContestRequest(c, failed) ==
    /\ panicked = NoPanic
    /\ task[<<"get", c, 0>>].pc = "idle"
    /\ task' = [task EXCEPT ![<<"get", c, 0>>] =
          IF failed THEN [IdleTask EXCEPT !.calls = 1, !.ret = "error"]
          ELSE [IdleTask EXCEPT !.pc = "readback", !.calls = 1, !.arg = c]]
    /\ UNCHANGED <<coordFrame, persistVars, mu, registryVars, panicked,
                   queueVars, callVars, chanVars>>

\* getCompleteContestData, called at the end of CreateContest and of
\* CreateContestWithProblems and by GetContest: the contest is read back
\* with its problems, participants and their ProblemResults, and the
\* response is returned.  An error of the query is returned; a contest that
\* is not stored gives nil and no error, and completeContest.Problems is a
\* nil dereference.
GetCompleteContestData(t, failed) ==
    /\ panicked = NoPanic
    /\ t[1] \in {"create", "get"}
    /\ task[t].pc = "readback"
    /\ IF failed
       THEN /\ task' = [task EXCEPT ![t] = Returned(@, "error")]
            /\ UNCHANGED panicked
       ELSE IF ~GetContest(contests, task[t].arg).found
       THEN /\ panicked' = NilDereference
            /\ task' = [task EXCEPT ![t] = Panicked(@)]
       ELSE /\ task' = [task EXCEPT ![t] = Returned(@, "ok")]
            /\ UNCHANGED panicked
    /\ UNCHANGED <<coordFrame, persistVars, mu, registryVars, queueVars,
                   callVars, chanVars>>

\* ContestService.CreateContest, a request that passes the tests at its top:
\* the contest row is stored RUNNING with started_at = now and ends_at five
\* minutes later.
CreateContest(c) ==
    /\ panicked = NoPanic
    /\ task[<<"create", c, 0>>].calls = 0
    /\ \A d \in 1..(c - 1) : task[<<"create", d, 0>>].calls > 0
    /\ contests' = [contests EXCEPT ![c] =
            [state |-> "RUNNING", startedAt |-> now,
             endsAt |-> now + ContestDurationMs]]
    /\ task' = [task EXCEPT ![<<"create", c, 0>>] =
          [IdleTask EXCEPT !.pc = "create-problems", !.calls = 1, !.arg = c]]
    /\ UNCHANGED <<coordFrame, participants, problemResults, submissions, mu,
                   registryVars, panicked, queueVars, callVars, chanVars>>

\* CreateContest: GetRandomProblems, a query that gives num_problems of the
\* stored problems, or all of them when there are fewer, in an order of its
\* choosing (ORDER BY RANDOM()).  The request asks for as many problems as
\* the catalogue was set up with.  An error of the query is returned, and
\* so is "not enough problems available" when it gave fewer than were
\* asked for; the contest row stays.
CreateContestProblems(c, ok) ==
    /\ panicked = NoPanic
    /\ task[<<"create", c, 0>>].pc = "create-problems"
    /\ \E randomProblems \in Permutations(Problems) :
          task' = [task EXCEPT ![<<"create", c, 0>>] =
             IF ok /\ \A q \in Problems : problems[q]
             THEN [@ EXCEPT !.pc = "create-add", !.n = 1,
                            !.problemList = randomProblems]
             ELSE Returned(@, "error")]
    /\ UNCHANGED <<coordFrame, persistVars, mu, registryVars, panicked,
                   queueVars, callVars, chanVars>>

\* CreateContest and CreateContestWithProblems, one turn of the loop over
\* the problems loaded: AddProblemToContest(contest.ID, problem.ID), a nil
\* dereference, of which the process dies, when the element is nil, and
\* otherwise an insert into contest_problems, which fails when the row is
\* there already (primary key) or the contest or the problem is no longer
\* stored (foreign keys).  When it fails the error is returned; the rows
\* stored so far stay.
AddProblemToContest(c, ok) ==
    /\ panicked = NoPanic
    /\ task[<<"create", c, 0>>].pc = "create-add"
    /\ LET n == task[<<"create", c, 0>>].n
           problemList == task[<<"create", c, 0>>].problemList
           q == problemList[n]
       IN IF q = 0
          THEN /\ panicked' = NilDereference
               /\ task' = [task EXCEPT ![<<"create", c, 0>>] = Panicked(@)]
               /\ UNCHANGED contestProblems
          ELSE /\ ok => /\ GetContest(contests, c).found
                        /\ problems[q]
                        /\ <<c, q>> \notin contestProblems
               /\ contestProblems' =
                     IF ok THEN contestProblems \cup {<<c, q>>}
                     ELSE contestProblems
               /\ task' = [task EXCEPT ![<<"create", c, 0>>] =
                     IF ~ok THEN Returned(@, "error")
                     ELSE IF n < Len(problemList) THEN [@ EXCEPT !.n = n + 1]
                     ELSE [@ EXCEPT !.pc = "create-participants", !.n = 1]]
               /\ UNCHANGED panicked
    /\ UNCHANGED <<setupVars, problems, queryVars, executorVars, poolTaskVars,
                   workerStatus, now, persistVars, mu, registryVars,
                   queueVars, callVars, chanVars>>

\* CreateContest and CreateContestWithProblems, one turn of the loop over
\* the participant models: CreateParticipant, an insert that fails when the
\* contest row is no longer stored (foreign key contest_id).  When it fails
\* the error is returned; the rows stored so far stay.
CreateParticipant(c, ok) ==
    /\ panicked = NoPanic
    /\ task[<<"create", c, 0>>].pc = "create-participants"
    /\ ok => GetContest(contests, c).found
    /\ LET n == task[<<"create", c, 0>>].n
       IN /\ participants' =
                IF ok THEN [participants EXCEPT ![<<c, n>>] = NewParticipant]
                ELSE participants
          /\ task' = [task EXCEPT ![<<"create", c, 0>>] =
                IF ~ok THEN Returned(@, "error")
                ELSE IF n < NumParticipants THEN [@ EXCEPT !.n = n + 1]
                ELSE [@ EXCEPT !.pc = "create-results", !.n = 1]]
    /\ UNCHANGED <<coordFrame, contests, problemResults, submissions, mu,
                   registryVars, panicked, queueVars, callVars, chanVars>>

\* CreateContest and CreateContestWithProblems, one turn of the loops over
\* the participants and the problems loaded (those the query gave, or those
\* of the request's ids): UpsertProblemResult of a NON_TRIED row,
\* which fails when the participant or the problem is no longer stored.
\* After the last turn StartContest is called.
CreateProblemResult(c, ok) ==
    /\ panicked = NoPanic
    /\ task[<<"create", c, 0>>].pc = "create-results"
    /\ LET n == task[<<"create", c, 0>>].n
           problemList == task[<<"create", c, 0>>].problemList
           k == <<c, ((n - 1) \div Len(problemList)) + 1,
                  problemList[((n - 1) % Len(problemList)) + 1]>>
       IN /\ ok => ResultKeysHold(participants, problems, k)
          /\ problemResults' =
                IF ok THEN UpsertProblemResult(problemResults, k,
                                               NewProblemResult)
                ELSE problemResults
          /\ task' = [task EXCEPT ![<<"create", c, 0>>] =
                IF ~ok THEN Returned(@, "error")
                ELSE IF n < NumParticipants * Len(problemList)
                THEN [@ EXCEPT !.n = n + 1]
                ELSE [@ EXCEPT !.pc = "start-lock", !.n = 0,
                               !.ids = << >>, !.problemList = << >>]]
    /\ UNCHANGED <<coordFrame, contests, participants, submissions, mu,
                   registryVars, panicked, queueVars, callVars, chanVars>>

\* ------------------------------------------------------ facade validation
\* ContestService.CreateContest, a request refused by the tests at its top
\* (num_problems <= 0, no participant model): the error is returned before
\* anything is stored.
CreateContestInvalid(numProblems, numModels) ==
    /\ panicked = NoPanic
    /\ Len(rejected) < MaxRejected
    /\ numProblems <= 0 \/ numModels = 0
    /\ rejected' = Append(rejected, "CreateContest")
    /\ UNCHANGED <<coordFrame, persistVars, task, mu, registryVars, panicked,
                   queueVars, startResult, ingestLog, chanVars>>

\* ContestService.CreateContestWithProblems: a request with an empty list of
\* problem ids or of participant models is refused before anything is
\* stored; for any other the contest row is stored RUNNING, before the
\* problem ids are looked at.
CreateContestWithProblems(c, ids, numModels) ==
    /\ panicked = NoPanic
    /\ task[<<"create", c, 0>>].calls = 0
    /\ \A d \in 1..(c - 1) : task[<<"create", d, 0>>].calls > 0
    /\ IF Len(ids) = 0 \/ numModels = 0
       THEN /\ Len(rejected) < MaxRejected
            /\ rejected' = Append(rejected, "CreateContestWithProblems")
            /\ UNCHANGED <<contests, task>>
       ELSE /\ contests' = [contests EXCEPT ![c] =
                   [state |-> "RUNNING", startedAt |-> now,
                    endsAt |-> now + ContestDurationMs]]
            /\ task' = [task EXCEPT ![<<"create", c, 0>>] =
                  [IdleTask EXCEPT !.pc = "create-ids", !.calls = 1,
                                   !.arg = c, !.n = 1, !.ids = ids]]
            /\ UNCHANGED rejected
    /\ UNCHANGED <<coordFrame, participants, problemResults, submissions, mu,
                   registryVars, panicked, queueVars, startResult, ingestLog,
                   chanVars>>

\* CreateContestWithProblems, one turn of the loop over the problem ids of
\* the request: uuid.Parse, whose error ends the request, then
\* GetProblemByID, whose error is returned; for a well-formed id of no
\* stored problem it gives nil, and no error, and nil is appended to the
\* list like a problem.  After the last id the loop over the list follows.
CreateContestWithProblemsIds(c, failed) ==
    /\ panicked = NoPanic
    /\ task[<<"create", c, 0>>].pc = "create-ids"
    /\ LET n == task[<<"create", c, 0>>].n
           ids == task[<<"create", c, 0>>].ids
           problem == IF ids[n].kind = "valid" /\ problems[ids[n].problem]
                      THEN ids[n].problem ELSE 0
       IN IF ids[n].kind = "malformed"
          THEN /\ rejected' = Append(rejected, "CreateContestWithProblems")
               /\ task' = [task EXCEPT ![<<"create", c, 0>>] =
                              Returned(@, "error")]
          ELSE /\ task' = [task EXCEPT ![<<"create", c, 0>>] =
                     IF failed THEN Returned(@, "error")
                     ELSE IF n < Len(ids)
                     THEN [@ EXCEPT !.n = n + 1,
                                    !.problemList = Append(@, problem)]
                     ELSE [@ EXCEPT !.pc = "create-add", !.n = 1,
                                    !.problemList = Append(@, problem)]]
               /\ UNCHANGED rejected
    /\ UNCHANGED <<coordFrame, persistVars, mu, registryVars, panicked,
                   queueVars, startResult, ingestLog, chanVars>>

\* ContestService.SubmitSolution, a request that is refused for an id
\* uuid.Parse does not accept or, once the contest has been found open, for
\* an unspecified language: the error is returned before CreateSubmission.
SubmitSolutionInvalid(c, wellFormed, language) ==
    /\ panicked = NoPanic
    /\ Len(rejected) < MaxRejected
    /\ \/ ~wellFormed
       \/ /\ contests[c].state = "RUNNING"
          /\ ~(now > contests[c].endsAt)
          /\ language = "UNSPECIFIED"
    /\ rejected' = Append(rejected, "SubmitSolution")
    /\ UNCHANGED <<coordFrame, persistVars, task, mu, registryVars, panicked,
                   queueVars, startResult, ingestLog, chanVars>>

\* ------------------------------------------------------ submission intake
\* ContestService.SubmitSolution up to its test of the contest: GetContest,
\* then contest.State != RUNNING || time.Now().After(contest.EndsAt).  The
\* test reads contest.State of a nil contest, and the process dies, when no
\* contest has the id.  A request that fails the test returns an error and
\* has changed nothing.
SubmitSolution(i, c, p, q) ==
    /\ panicked = NoPanic
    /\ task[<<"submit", i, 0>>].calls = 0
    /\ \A j \in 1..(i - 1) : task[<<"submit", j, 0>>].calls > 0
    /\ LET contest == GetContest(contests, c)
       IN IF ~contest.found
          THEN /\ panicked' = NilDereference
               /\ task' = [task EXCEPT ![<<"submit", i, 0>>] = Panicked(@)]
          ELSE /\ contest.row.state = "RUNNING"
               /\ ~(now > contest.row.endsAt)
               /\ task' = [task EXCEPT ![<<"submit", i, 0>>] =
                     [IdleTask EXCEPT !.pc = "submit-insert", !.calls = 1,
                                      !.arg = c, !.sub = i,
                                      !.participant = p, !.problem = q]]
               /\ UNCHANGED panicked
    /\ UNCHANGED <<coordFrame, persistVars, mu, registryVars, queueVars,
                   callVars, chanVars>>

\* Where ProcessSubmission begins: variant A looks the contestID argument
\* up in the registry, variant B first loads the submission.
ProcessSubmissionEntry(v) == IF v = "A" THEN "submit-lookup" ELSE "submit-load"

\* SubmitSolution: CreateSubmission stores the row PENDING with submitted_at
\* = time.Now() as read just before the insert.  The insert fails on a
\* foreign key, and the error is returned, when the participant or the
\* problem has no row.  Then ProcessSubmission is called.
CreateSubmission(i) ==
    /\ panicked = NoPanic
    /\ task[<<"submit", i, 0>>].pc = "submit-insert"
    /\ LET rec == task[<<"submit", i, 0>>]
       IN IF /\ participants[<<rec.arg, rec.participant>>].stored
             /\ problems[rec.problem]
          THEN /\ submissions' = [submissions EXCEPT ![i] =
                     [status |-> "PENDING", message |-> "",
                      contest |-> rec.arg, participant |-> rec.participant,
                      problem |-> rec.problem, submittedAt |-> now]]
               /\ task' = [task EXCEPT ![<<"submit", i, 0>>] =
                     [@ EXCEPT !.pc = ProcessSubmissionEntry(variant)]]
          ELSE /\ task' = [task EXCEPT ![<<"submit", i, 0>>] =
                     Returned(@, "error")]
               /\ UNCHANGED submissions
    /\ UNCHANGED <<coordFrame, contests, participants, problemResults, mu,
                   registryVars, panicked, queueVars, callVars, chanVars>>

\* ContestCoordinator.ProcessSubmission called again for a submission whose
\* earlier call returned "contest not active".
ProcessSubmission(i, contestID) ==
    /\ panicked = NoPanic
    /\ task[<<"submit", i, 0>>].pc = "idle"
    /\ task[<<"submit", i, 0>>].ret = "rejected"
    /\ task[<<"submit", i, 0>>].calls <= MaxRetries
    /\ task' = [task EXCEPT ![<<"submit", i, 0>>] =
          [IdleTask EXCEPT !.pc = ProcessSubmissionEntry(variant),
                           !.sub = i, !.arg = contestID,
                           !.calls = task[<<"submit", i, 0>>].calls + 1]]
    /\ UNCHANGED <<coordFrame, persistVars, mu, registryVars, panicked,
                   queueVars, callVars, chanVars>>

\* ProcessSubmission: GetSubmission.  An error of the statement is
\* returned; a submission that is not stored gives nil and no error.
\* Variant B makes the statement first and goes on to the registry with
\* what it got: the contest looked up is the loaded submission's ContestID.
\* Variant A makes it after the registry lookup and goes on to load the
\* test cases of submission.ProblemID: a nil pointer dereference when
\* GetSubmission gave nil, an error that is returned when the query fails.
ProcessSubmissionLoad(i, failed) ==
    /\ panicked = NoPanic
    /\ task[<<"submit", i, 0>>].pc = "submit-load"
    /\ LET submission == GetSubmission(submissions, i)
       IN IF failed
          THEN /\ task' = [task EXCEPT ![<<"submit", i, 0>>] =
                              Returned(@, "error")]
               /\ UNCHANGED panicked
          ELSE IF variant = "A" /\ ~submission.found
          THEN /\ panicked' = NilDereference
               /\ task' = [task EXCEPT ![<<"submit", i, 0>>] = Panicked(@)]
          ELSE /\ task' = [task EXCEPT ![<<"submit", i, 0>>] =
                     IF variant = "A" THEN [@ EXCEPT !.pc = "submit-pending",
                                                    !.found = TRUE]
                     ELSE [@ EXCEPT !.pc = "submit-lookup",
                                    !.found = submission.found,
                                    !.arg = submission.row.contest]]
               /\ UNCHANGED panicked
    /\ UNCHANGED <<coordFrame, persistVars, mu, registryVars, queueVars,
                   callVars, chanVars>>

\* ProcessSubmission, the section under the read lock: the contest is looked
\* up in the registry; "contest not active" is returned, with nothing
\* changed, when it has no entry.  In variant B the key is read from the
\* loaded submission inside the section: a nil pointer dereference, made
\* with the read lock held, when GetSubmission gave nil.
ProcessSubmissionLookup(i) ==
    /\ panicked = NoPanic
    /\ task[<<"submit", i, 0>>].pc = "submit-lookup"
    /\ CanRLock(mu, <<"submit", i, 0>>)
    /\ IF variant = "B" /\ ~task[<<"submit", i, 0>>].found
       THEN /\ panicked' = NilDereference
            /\ mu' = [mu EXCEPT !.readers = @ \cup {<<"submit", i, 0>>}]
            /\ task' = [task EXCEPT ![<<"submit", i, 0>>] = Panicked(@)]
       ELSE /\ mu' = RUnlocked(mu, <<"submit", i, 0>>)
            /\ task' = [task EXCEPT ![<<"submit", i, 0>>] =
                  IF task[<<"submit", i, 0>>].arg \notin DOMAIN activeContests
                  THEN Returned(@, "rejected")
                  ELSE IF variant = "A" THEN [@ EXCEPT !.pc = "submit-load"]
                  ELSE [@ EXCEPT !.pc = "submit-pending"]]
            /\ UNCHANGED panicked
    /\ UNCHANGED <<coordFrame, persistVars, registryVars, queueVars,
                   callVars, chanVars>>

\* ProcessSubmission: the request is built from the submission as loaded
\* (variant B loads the test cases here), then
\* UpdateSubmissionStatus(PENDING, "Queued for execution"), an update by
\* the submission's id.  When a statement fails its error is returned and
\* nothing has been written.  Variant A then broadcasts the leaderboard of
\* the contest; both enqueue.
ProcessSubmissionPending(i, failed) ==
    /\ panicked = NoPanic
    /\ task[<<"submit", i, 0>>].pc = "submit-pending"
    /\ submissions' =
          IF failed THEN submissions
          ELSE UpdateSubmissionStatus(submissions, i, "PENDING",
                                      "Queued for execution")
    /\ task' = [task EXCEPT ![<<"submit", i, 0>>] =
          IF failed THEN Returned(@, "error")
          ELSE [@ EXCEPT !.pc = IF variant = "A" THEN "broadcast"
                                ELSE "submit-queue"]]
    /\ UNCHANGED <<coordFrame, contests, participants, problemResults, mu,
                   registryVars, panicked, queueVars, callVars, chanVars>>

\* ProcessSubmission: QueueExecution, an LPUSH on the jobs list; nil is
\* returned when it succeeds.
ProcessSubmissionQueue(i, pushed) ==
    /\ panicked = NoPanic
    /\ task[<<"submit", i, 0>>].pc = "submit-queue"
    /\ IF pushed
       THEN /\ jobsQueue' = <<i>> \o jobsQueue
            /\ jobLog' = Append(jobLog, [op |-> "enqueue", job |-> i])
            /\ task' = [task EXCEPT ![<<"submit", i, 0>>] =
                           Returned(@, "queued")]
       ELSE /\ task' = [task EXCEPT ![<<"submit", i, 0>>] =
                           [@ EXCEPT !.pc = "submit-failed"]]
            /\ UNCHANGED <<jobsQueue, jobLog>>
    /\ UNCHANGED <<coordFrame, persistVars, mu, registryVars, panicked,
                   worker, published, pubsub, resultChan, redeliveries,
                   callVars, chanVars>>

\* ProcessSubmission when QueueExecution failed:
\* UpdateSubmissionStatus(JUDGEMENT_FAILED, "Failed to queue for
\* execution"), whose error is dropped, and the error of QueueExecution is
\* returned: when the update fails the submission stays as it was.
ProcessSubmissionFailed(i, failed) ==
    /\ panicked = NoPanic
    /\ task[<<"submit", i, 0>>].pc = "submit-failed"
    /\ submissions' =
          IF failed THEN submissions
          ELSE UpdateSubmissionStatus(submissions, i, "JUDGEMENT_FAILED",
                                      "Failed to queue for execution")
    /\ task' = [task EXCEPT ![<<"submit", i, 0>>] = Returned(@, "failed")]
    /\ UNCHANGED <<coordFrame, contests, participants, problemResults, mu,
                   registryVars, panicked, queueVars, callVars, chanVars>>

\* ------------------------------------------------------------ StopContest
\* The caller of StopContest goes on: an outside call returns ret, the run
\* goroutine returns.
StopReturned(t, rec, ret) ==
    IF t[1] = "run" THEN Exited ELSE Returned(rec, ret)

\* ContestCoordinator.StopContest called from outside for contest id c.
StopContestCall(c) ==
    /\ panicked = NoPanic
    /\ task[<<"stop", c, 0>>].pc = "idle"
    /\ task[<<"stop", c, 0>>].calls < MaxStopCalls
    /\ task' = [task EXCEPT ![<<"stop", c, 0>>] =
          [IdleTask EXCEPT !.pc = "stop-lock", !.arg = c,
                           !.calls = task[<<"stop", c, 0>>].calls + 1]]
    /\ UNCHANGED <<coordFrame, persistVars, mu, registryVars, panicked,
                   queueVars, callVars, chanVars>>

\* ContestInstance.run: the ticker case finds time.Now().After(ci.EndsAt)
\* and calls StopContest(ci.ID).  ci.EndsAt is the instance's own copy of
\* the ends_at the contest row had when StartContest made the instance.
TimerExpire(c, g) ==
    /\ panicked = NoPanic
    /\ task[<<"run", c, g>>].pc = "ticking"
    /\ now > task[<<"run", c, g>>].endsAt
    /\ task' = [task EXCEPT ![<<"run", c, g>>] =
          [@ EXCEPT !.pc = "stop-lock"]]
    /\ UNCHANGED <<coordFrame, persistVars, mu, registryVars, panicked,
                   queueVars, callVars, chanVars>>

\* ContestInstance.run: the stopChan case; the goroutine returns.
TimerStopped(c, g) ==
    /\ panicked = NoPanic
    /\ task[<<"run", c, g>>].pc = "ticking"
    /\ stopChan[c][g] = "closed"
    /\ task' = [task EXCEPT ![<<"run", c, g>>] = Exited]
    /\ UNCHANGED <<coordFrame, persistVars, mu, registryVars, panicked,
                   queueVars, callVars, chanVars>>

\* StopContest, variant A, first section under the write lock: the instance
\* stored under the contest id is looked up and the lock released; an error
\* is returned when there is none.
StopContestLookup(t) ==
    /\ panicked = NoPanic
    /\ variant = "A"
    /\ t[1] \in {"stop", "run"}
    /\ task[t].pc = "stop-lock"
    /\ CanLock(mu, t)
    /\ mu' = Unlocked(mu)
    /\ task' = [task EXCEPT ![t] =
          IF task[t].arg \in DOMAIN activeContests
          THEN [@ EXCEPT !.pc = "stop-close",
                         !.inst = activeContests[task[t].arg].inst]
          ELSE StopReturned(t, @, "error")]
    /\ UNCHANGED <<coordFrame, persistVars, registryVars, panicked,
                   queueVars, callVars, chanVars>>

\* StopContest, variant A: close(instance.stopChan) of the instance that was
\* looked up, made without the lock.  Closing a closed channel panics.
StopContestClose(t) ==
    /\ panicked = NoPanic
    /\ task[t].pc = "stop-close"
    /\ LET c == task[t].arg
           g == task[t].inst
       IN IF stopChan[c][g] = "closed"
          THEN /\ panicked' = CloseOfClosedChannel
               /\ task' = [task EXCEPT ![t] = Panicked(@)]
               /\ UNCHANGED stopChan
          ELSE /\ stopChan' = [stopChan EXCEPT ![c][g] = "closed"]
               /\ task' = [task EXCEPT ![t] = [@ EXCEPT !.pc = "stop-state"]]
               /\ UNCHANGED panicked
    /\ UNCHANGED <<coordFrame, persistVars, mu, activeContests,
                   leaderboardSubscribers, queueVars, callVars, chanVars>>

\* StopContest, variant B, under the write lock, which it holds to its end:
\* the instance is looked up (an error is returned when there is none) and
\* its stopChan closed.
StopContestLocked(t) ==
    /\ panicked = NoPanic
    /\ variant = "B"
    /\ t[1] \in {"stop", "run"}
    /\ task[t].pc = "stop-lock"
    /\ CanLock(mu, t)
    /\ LET c == task[t].arg
       IN IF c \notin DOMAIN activeContests
          THEN /\ mu' = Unlocked(mu)
               /\ task' = [task EXCEPT ![t] = StopReturned(t, @, "error")]
               /\ UNCHANGED <<stopChan, panicked>>
          ELSE IF stopChan[c][activeContests[c].inst] = "closed"
          THEN /\ mu' = Locked(mu, t)
               /\ panicked' = CloseOfClosedChannel
               /\ task' = [task EXCEPT ![t] = Panicked(@)]
               /\ UNCHANGED stopChan
          ELSE /\ mu' = Locked(mu, t)
               /\ stopChan' =
                    [stopChan EXCEPT ![c][activeContests[c].inst] = "closed"]
               /\ task' = [task EXCEPT ![t] =
                     [@ EXCEPT !.pc = "stop-state",
                               !.inst = activeContests[c].inst]]
               /\ UNCHANGED panicked
    /\ UNCHANGED <<coordFrame, persistVars, activeContests,
                   leaderboardSubscribers, queueVars, callVars, chanVars>>

\* StopContest: UpdateContestState(FINISHED).  Variant B holds the lock.
StopContestState(t) ==
    /\ panicked = NoPanic
    /\ task[t].pc = "stop-state"
    /\ contests' = UpdateContestState(contests, task[t].arg, "FINISHED")
    /\ task' = [task EXCEPT ![t] =
          [@ EXCEPT !.pc = IF variant = "A" THEN "stop-cancel"
                           ELSE "stop-delete"]]
    /\ UNCHANGED <<coordFrame, participants, problemResults, submissions, mu,
                   registryVars, panicked, queueVars, callVars, chanVars>>

\* StopContest, variant A: CancelPendingSubmissions, then the final
\* leaderboard broadcast.
StopContestCancel(t) ==
    /\ panicked = NoPanic
    /\ task[t].pc = "stop-cancel"
    /\ submissions' = CancelPendingSubmissions(submissions, task[t].arg)
    /\ task' = [task EXCEPT ![t] = [@ EXCEPT !.pc = "broadcast"]]
    /\ UNCHANGED <<coordFrame, contests, participants, problemResults, mu,
                   registryVars, panicked, queueVars, callVars, chanVars>>

\* StopContest, end: the entry and the subscriber list under the contest id
\* are deleted under the write lock, which variant A takes again and
\* variant B still holds, and the lock is released.
StopContestDelete(t) ==
    /\ panicked = NoPanic
    /\ t[1] \in {"stop", "run"}
    /\ task[t].pc = "stop-delete"
    /\ IF variant = "A" THEN CanLock(mu, t) ELSE mu.writer = t
    /\ activeContests' = Without(activeContests, task[t].arg)
    /\ leaderboardSubscribers' = Without(leaderboardSubscribers, task[t].arg)
    /\ mu' = Unlocked(mu)
    /\ task' = [task EXCEPT ![t] = StopReturned(t, @, "ok")]
    /\ UNCHANGED <<coordFrame, persistVars, stopChan, panicked, queueVars,
                   callVars, chanVars>>

\* ------------------------------------------------------ leaderboard stream
\* ContestService.StreamLeaderboard called for contest id c, whatever the
\* state of the contest.
StreamLeaderboard(ch, c) ==
    /\ panicked = NoPanic
    /\ task[<<"subscribe", ch, 0>>].calls = 0
    /\ \A d \in 1..(ch - 1) : task[<<"subscribe", d, 0>>].calls > 0
    /\ task' = [task EXCEPT ![<<"subscribe", ch, 0>>] =
          [IdleTask EXCEPT !.pc = "subscribe-lock", !.calls = 1, !.arg = c]]
    /\ UNCHANGED <<coordFrame, persistVars, mu, registryVars, panicked,
                   queueVars, callVars, chanVars>>

\* SubscribeToLeaderboardUpdates, under the write lock: a channel with room
\* for 10 updates is made and appended to the contest's subscriber list.
SubscribeToLeaderboardUpdates(ch) ==
    /\ panicked = NoPanic
    /\ task[<<"subscribe", ch, 0>>].pc = "subscribe-lock"
    /\ CanLock(mu, <<"subscribe", ch, 0>>)
    /\ mu' = Unlocked(mu)
    /\ LET c == task[<<"subscribe", ch, 0>>].arg
       IN /\ updateChans' = [updateChans EXCEPT ![ch].contest = c]
          /\ leaderboardSubscribers' =
                (c :> (IF c \in DOMAIN leaderboardSubscribers
                       THEN Append(leaderboardSubscribers[c], ch)
                       ELSE <<ch>>))
                @@ leaderboardSubscribers
    /\ task' = [task EXCEPT ![<<"subscribe", ch, 0>>] = Returned(@, "ok")]
    /\ UNCHANGED <<coordFrame, persistVars, activeContests, stopChan,
                   panicked, queueVars, callVars, streams>>

\* ContestService.StreamLeaderboard, the loop over the channel: an update is
\* taken from the channel and sent on the stream; the loop ends when the
\* channel is closed and drained.
StreamRecv(ch) ==
    /\ panicked = NoPanic
    /\ updateChans[ch].contest # 0
    /\ ~streams[ch].done
    /\ updateChans[ch].buf # << >> \/ updateChans[ch].closed
    /\ IF updateChans[ch].buf # << >>
       THEN /\ streams' = [streams EXCEPT ![ch].sent =
                              Append(@, Head(updateChans[ch].buf))]
            /\ updateChans' = [updateChans EXCEPT ![ch].buf = Tail(@)]
       ELSE /\ streams' = [streams EXCEPT ![ch].done = TRUE]
            /\ updateChans' = updateChans
    /\ UNCHANGED <<coordFrame, persistVars, task, mu, registryVars, panicked,
                   queueVars, callVars>>

\* --------------------------------------------------------- verdict loop
\* processExecutionResults: a result is taken from the channel and
\* handleExecutionResult called with it.
HandleReceive ==
    /\ panicked = NoPanic
    /\ task[Ingest].pc = "idle"
    /\ resultChan # << >>
    /\ resultChan' = Tail(resultChan)
    /\ task' = [task EXCEPT ![Ingest] =
          [IdleTask EXCEPT !.pc = "ingest-status",
                           !.sub = Head(resultChan).submission,
                           !.status = Head(resultChan).status]]
    /\ UNCHANGED <<coordFrame, persistVars, mu, registryVars, panicked,
                   jobsQueue, worker, published, pubsub, redeliveries,
                   jobLog, callVars, chanVars>>

\* handleExecutionResult: UpdateSubmissionStatus with the result's status
\* (and the test case progress, which the model does not track).
HandleStatus ==
    /\ panicked = NoPanic
    /\ task[Ingest].pc = "ingest-status"
    /\ submissions' = UpdateSubmissionStatus(submissions, task[Ingest].sub,
                                             task[Ingest].status, "verdict")
    /\ task' = [task EXCEPT ![Ingest] = [@ EXCEPT !.pc = "ingest-reload"]]
    /\ UNCHANGED <<coordFrame, contests, participants, problemResults, mu,
                   registryVars, panicked, queueVars, callVars, chanVars>>

\* handleExecutionResult: GetSubmission, which gives nil and no error for
\* a submission that is not stored.  Variant A reads submission.ContestID
\* next, as the argument of GetContest: a nil pointer dereference, the
\* goroutine panics and the process dies.  Variant B reads it only inside
\* the section under the read lock.
HandleReload ==
    /\ panicked = NoPanic
    /\ task[Ingest].pc = "ingest-reload"
    /\ LET submission == GetSubmission(submissions, task[Ingest].sub)
       IN IF variant = "A" /\ ~submission.found
          THEN /\ panicked' = NilDereference
               /\ task' = [task EXCEPT ![Ingest] = Panicked(@)]
          ELSE /\ task' = [task EXCEPT ![Ingest] =
                     [@ EXCEPT !.pc = IF variant = "A" THEN "ingest-contest"
                                      ELSE "ingest-lookup",
                               !.found = submission.found,
                               !.arg = submission.row.contest,
                               !.participant = submission.row.participant,
                               !.problem = submission.row.problem,
                               !.submittedAt = submission.row.submittedAt]]
               /\ UNCHANGED panicked
    /\ UNCHANGED <<coordFrame, persistVars, mu, registryVars, queueVars,
                   callVars, chanVars>>

\* The entry of the log for the result the verdict loop is handling.
Handled(rec, active) ==
    [submission |-> rec.sub, status |-> rec.status, active |-> active]

\* handleExecutionResult, variant A: GetContest; the result is dropped when
\* the contest is persisted FINISHED.
HandleContest ==
    /\ panicked = NoPanic
    /\ task[Ingest].pc = "ingest-contest"
    /\ LET contest == GetContest(contests, task[Ingest].arg)
       IN IF ~contest.found
          THEN /\ panicked' = NilDereference
               /\ task' = [task EXCEPT ![Ingest] = Panicked(@)]
               /\ UNCHANGED ingestLog
          ELSE IF SkipsFinished(variant, contest.row.state)
          THEN /\ ingestLog' = Append(ingestLog, Handled(task[Ingest], FALSE))
               /\ task' = [task EXCEPT ![Ingest] = Returned(@, "")]
               /\ UNCHANGED panicked
          ELSE /\ task' = [task EXCEPT ![Ingest] =
                     [@ EXCEPT !.pc = "ingest-lookup"]]
               /\ UNCHANGED <<panicked, ingestLog>>
    /\ UNCHANGED <<coordFrame, persistVars, mu, registryVars, queueVars,
                   startResult, rejected, chanVars>>

\* handleExecutionResult, the section under the read lock: the contest's
\* instance is looked up; the result is dropped when there is none.  With
\* an instance, updateParticipantStats follows for an ACCEPTED result; for
\* any other variant A goes on to the broadcast and variant B returns.  In
\* variant B the key is submission.ContestID read inside the section: a nil
\* pointer dereference, made with the read lock held, when GetSubmission
\* gave nil.
HandleLookup ==
    /\ panicked = NoPanic
    /\ task[Ingest].pc = "ingest-lookup"
    /\ CanRLock(mu, Ingest)
    /\ IF variant = "B" /\ ~task[Ingest].found
       THEN /\ panicked' = NilDereference
            /\ mu' = [mu EXCEPT !.readers = @ \cup {Ingest}]
            /\ task' = [task EXCEPT ![Ingest] = Panicked(@)]
            /\ UNCHANGED ingestLog
       ELSE /\ mu' = RUnlocked(mu, Ingest)
            /\ LET c == task[Ingest].arg
                   active == c \in DOMAIN activeContests
               IN /\ ingestLog' =
                        Append(ingestLog, Handled(task[Ingest], active))
                  /\ task' = [task EXCEPT ![Ingest] =
                        IF ~active THEN Returned(@, "")
                        ELSE IF NeedsStatsUpdate(task[Ingest].status)
                        THEN [@ EXCEPT
                                !.pc = "stats-read",
                                !.startedAt = activeContests[c].startedAt]
                        ELSE IF variant = "A"
                        THEN [@ EXCEPT !.pc = "broadcast"]
                        ELSE Returned(@, "")]
            /\ UNCHANGED panicked
    /\ UNCHANGED <<coordFrame, persistVars, registryVars, queueVars,
                   startResult, rejected, chanVars>>

\* updateParticipantStats: GetParticipant loads the participant and its
\* ProblemResults; the rule is applied to the loaded ProblemResult of the
\* submission's problem.  When the participant or that ProblemResult is
\* missing the error is returned and logged, and the broadcast follows.
HandleStatsRead ==
    /\ panicked = NoPanic
    /\ task[Ingest].pc = "stats-read"
    /\ LET rec == task[Ingest]
           read == GetParticipant(participants, problemResults, rec.arg,
                                  rec.participant)
       IN task' = [task EXCEPT ![Ingest] =
             IF ~read.found \/ read.results[rec.problem].status = "NONE"
             THEN [@ EXCEPT !.pc = "broadcast"]
             ELSE [@ EXCEPT
                     !.pc = "stats-upsert",
                     !.read = [read EXCEPT !.results[rec.problem] =
                         UpdatedProblemResult(@, rec.status,
                             rec.submittedAt, rec.startedAt)]]]
    /\ UNCHANGED <<coordFrame, persistVars, mu, registryVars, panicked,
                   queueVars, callVars, chanVars>>

\* updateParticipantStats: UpsertProblemResult of the ProblemResult as
\* changed in memory.  When the participant or the problem has been deleted
\* meanwhile the statement fails on the foreign key; the error is returned
\* and logged, and the broadcast follows.
HandleStatsUpsert ==
    /\ panicked = NoPanic
    /\ task[Ingest].pc = "stats-upsert"
    /\ LET rec == task[Ingest]
           k == <<rec.arg, rec.participant, rec.problem>>
       IN IF ResultKeysHold(participants, problems, k)
          THEN /\ problemResults' =
                    UpsertProblemResult(problemResults, k,
                                        rec.read.results[rec.problem])
               /\ task' = [task EXCEPT ![Ingest] =
                              [@ EXCEPT !.pc = "stats-update"]]
          ELSE /\ task' = [task EXCEPT ![Ingest] =
                              [@ EXCEPT !.pc = "broadcast", !.read = NoRead]]
               /\ UNCHANGED problemResults
    /\ UNCHANGED <<coordFrame, contests, participants, submissions, mu,
                   registryVars, panicked, queueVars, callVars, chanVars>>

\* updateParticipantStats: the counters are recomputed over the
\* ProblemResults in memory and stored with UpdateParticipantStats; then
\* the leaderboard broadcast.
HandleStatsUpdate ==
    /\ panicked = NoPanic
    /\ task[Ingest].pc = "stats-update"
    /\ LET rec == task[Ingest]
       IN participants' =
             UpdateParticipantStats(participants,
                 <<rec.arg, rec.participant>>,
                 RecomputedStats(
                     InMemory(rec.read.results, rec.arg, rec.participant),
                     rec.arg, rec.participant))
    /\ task' = [task EXCEPT ![Ingest] =
          [@ EXCEPT !.pc = "broadcast", !.read = NoRead]]
    /\ UNCHANGED <<coordFrame, contests, problemResults, submissions, mu,
                   registryVars, panicked, queueVars, callVars, chanVars>>

\* ------------------------------------------------------- queue and worker
\* What no step of a worker or of the broker changes.
workerFrame ==
    <<otherVars, now, persistVars, task, mu, registryVars, panicked,
      callVars, chanVars>>

\* The end of the list a pop takes from: BRPOP takes the tail, the end
\* opposite to LPUSH.
PoppedIndexLeft(q) == 1

PoppedIndex(q) == Len(q)

\* The list BRPOP leaves: the popped element is removed in the same command
\* that returns it.
AfterPopKept(q) == q

AfterPop(q) ==
    [j \in 1..(Len(q) - 1) |->
        IF j < PoppedIndex(q) THEN q[j] ELSE q[j + 1]]

\* The value of an element of the jobs list that is not the JSON of an
\* ExecutionRequest.
Malformed == 0

\* ExecutionQueue.DequeueExecution, BRPOP: one element is removed from the
\* list atomically.  An element that is not the JSON of an ExecutionRequest
\* is lost: the error is returned and processJobs asks again.
DequeueExecution(w) ==
    /\ worker[w].pc = "idle"
    /\ jobsQueue # << >>
    /\ LET popped == jobsQueue[PoppedIndex(jobsQueue)]
       IN /\ worker' = [worker EXCEPT ![w] =
                IF popped = Malformed THEN IdleWorker
                ELSE [pc |-> "popped", job |-> popped]]
          /\ jobLog' =
                IF popped = Malformed THEN jobLog
                ELSE Append(jobLog, [op |-> "dequeue", job |-> popped])
    /\ jobsQueue' = AfterPop(jobsQueue)
    /\ UNCHANGED <<workerFrame, poolVars, published, pubsub, resultChan,
                   redeliveries>>

\* DequeueExecution, after the pop: updateWorkerStatus stores the worker as
\* busy with the job (HSET), and the job is returned.
DequeueMarkBusy(w) ==
    /\ worker[w].pc = "popped"
    /\ workerStatus' = [workerStatus EXCEPT
                           ![w] = WorkerStatus("busy", now, worker[w].job)]
    /\ worker' = [worker EXCEPT ![w].pc = "busy"]
    /\ UNCHANGED <<workerFrame, poolTaskVars, jobsQueue, published, pubsub,
                   resultChan, redeliveries, jobLog>>

\* WorkerService.processJobs: processJob runs the job (the executor's
\* verdict is v, or JUDGEMENT_FAILED when Execute fails) and PublishResult
\* publishes the result on execution:results.
PublishResult(w, v) ==
    /\ worker[w].pc = "busy"
    /\ LET result == [submission |-> worker[w].job, status |-> v]
       IN /\ published' = published \cup {result}
          /\ pubsub' = Append(pubsub, result)
    /\ worker' = [worker EXCEPT ![w].pc = "published"]
    /\ UNCHANGED <<workerFrame, poolVars, jobsQueue, resultChan,
                   redeliveries, jobLog>>

\* WorkerService.processJobs: PublishResult fails; the error is logged and
\* the job is not requeued.
PublishFails(w) ==
    /\ worker[w].pc = "busy"
    /\ worker' = [worker EXCEPT ![w].pc = "published"]
    /\ UNCHANGED <<workerFrame, poolVars, jobsQueue, published, pubsub,
                   resultChan, redeliveries, jobLog>>

\* ExecutionQueue.MarkWorkerIdle: the value HSET stores.
MarkWorkerIdle(hash, w, t) == [hash EXCEPT ![w] = WorkerStatus("idle", t, 0)]

\* WorkerService.processJobs, end of a turn: MarkWorkerIdle.
WorkerIdle(w) ==
    /\ worker[w].pc = "published"
    /\ workerStatus' = MarkWorkerIdle(workerStatus, w, now)
    /\ worker' = [worker EXCEPT ![w] = IdleWorker]
    /\ UNCHANGED <<workerFrame, poolTaskVars, jobsQueue, published, pubsub,
                   resultChan, redeliveries, jobLog>>

\* SubscribeToResults, forwarding goroutine: a result goes to the
\* coordinator's channel unless its buffer is full, in which case it is
\* dropped.
ForwardedUnbounded(chan, result) == Append(chan, result)

Forwarded(chan, result) ==
    IF Len(chan) < ResultChanCap THEN Append(chan, result) ELSE chan

\* SubscribeToResults, one turn of the forwarding goroutine: the next
\* message of the subscription is decoded and sent, without blocking, to the
\* result channel.
ForwardResult ==
    /\ panicked = NoPanic
    /\ pubsub # << >>
    /\ resultChan' = Forwarded(resultChan, Head(pubsub))
    /\ pubsub' = Tail(pubsub)
    /\ UNCHANGED <<workerFrame, poolVars, jobsQueue, worker, published,
                   redeliveries, jobLog>>

\* The results channel is at-least-once: the broker hands a result it has
\* carried to the subscription a second time.
Redeliver(result) ==
    /\ redeliveries < MaxRedeliveries
    /\ result \in published
    /\ redeliveries' = redeliveries + 1
    /\ pubsub' = Append(pubsub, result)
    /\ UNCHANGED <<workerFrame, poolVars, jobsQueue, worker, published,
                   resultChan, jobLog>>

\* A burst on the results channel: results keep arriving at the subscription
\* faster than the verdict loop takes them.
RedeliverBurst(result) ==
    /\ redeliveries < MaxBurst
    /\ result \in published
    /\ redeliveries' = redeliveries + 1
    /\ pubsub' = Append(pubsub, result)
    /\ UNCHANGED <<workerFrame, poolVars, jobsQueue, worker, published,
                   resultChan, jobLog>>

\* A result published on execution:results that names a submission of which
\* there is no row: the subscription forwards it like any other.
PublishForeignResult(v) ==
    /\ redeliveries < MaxRedeliveries
    /\ redeliveries' = redeliveries + 1
    /\ pubsub' = Append(pubsub, [submission |-> UnknownSubmission,
                                 status |-> v])
    /\ UNCHANGED <<workerFrame, poolVars, jobsQueue, worker, published,
                   resultChan, jobLog>>

\* Another client of the Redis server pushes such an element on the list.
PushMalformedJob ==
    /\ \A j \in 1..Len(jobsQueue) : jobsQueue[j] # Malformed
    /\ jobsQueue' = <<Malformed>> \o jobsQueue
    /\ UNCHANGED <<workerFrame, poolVars, worker, published, pubsub,
                   resultChan, redeliveries, jobLog>>

\* --------------------------------------------------------------- executor
\* compile: Python is not compiled; a C++ compilation fails when the compiler
\* exits non-zero.
Compiles(req) == req.language = "PYTHON" \/ req.compiles

\* The test cases handed to the test loop: none when compilation failed.
TestCasesIgnoringCompile(req) == req.outcomes

TestCasesAfterCompile(req) == IF Compiles(req) THEN req.outcomes ELSE << >>

\* The outcomes up to and including the first one in stopSet.
UpToFirst(outcomes, stopSet) ==
    LET idx == {j \in 1..Len(outcomes) : outcomes[j] \in stopSet}
    IN IF idx = {} THEN outcomes
       ELSE SubSeq(outcomes, 1, CHOOSE j \in idx : \A k \in idx : j <= k)

\* The test loop of Execute / executeCpp / executePython, over the test
\* cases in request order (ascending test_order): it ends at an error of
\* executeTestCase and, except in the second DirectExecutor, at the first
\* result that is not PASSED.
TestCasesRun(ex, outcomes) ==
    IF ex = "direct2"
    THEN UpToFirst(outcomes, {"ERROR"})
    ELSE UpToFirst(outcomes, TestOutcomes \ {"PASSED"})

\* The submission status a failing test case status is turned into.
Classification(testStatus) ==
    CASE testStatus = "WRONG_ANSWER" -> "WRONG_ANSWER"
      [] testStatus = "TIME_LIMIT_EXCEEDED" -> "TIME_LIMIT_EXCEEDED"
      [] testStatus = "MEMORY_LIMIT_EXCEEDED" -> "MEMORY_LIMIT_EXCEEDED"
      [] testStatus = "RUNTIME_ERROR" -> "RUNTIME_ERROR"
      [] testStatus = "PRESENTATION_ERROR" -> "PRESENTATION_ERROR"
      [] OTHER -> "JUDGEMENT_FAILED"

\* DockerExecutor.Execute, aggregation: ACCEPTED when every test case passed,
\* else the classification of the first result that is not PASSED.
DockerVerdict(results, total) ==
    LET failing == {j \in 1..Len(results) : results[j] # "PASSED"}
    IN IF Len(results) - Cardinality(failing) < total /\ failing # {}
       THEN Classification(results[CHOOSE j \in failing :
                                       \A k \in failing : j <= k])
       ELSE "ACCEPTED"

\* DirectExecutor.Execute, aggregation: a loop over all results in which
\* every result that is not PASSED overwrites the status.
RECURSIVE DirectVerdict(_, _)
DirectVerdict(results, status) ==
    IF results = << >> THEN status
    ELSE DirectVerdict(Tail(results),
             IF Head(results) = "PASSED" THEN status
             ELSE Classification(Head(results)))

\* Executor.Execute followed by WorkerService.processJob's handling of its
\* error: the one ExecutionResult of the job.  executed counts the test
\* cases that were run.
Execute(ex, req) ==
    LET ran == TestCasesRun(ex, TestCasesAfterCompile(req))
        notExecuted == [j \in 1..(Len(req.outcomes) - Len(ran)) |->
                           "NOT_EXECUTED"]
    IN IF ~Compiles(req)
       THEN [status |-> "COMPILATION_ERROR", testCaseResults |-> << >>,
             executed |-> Len(ran)]
       ELSE IF \E j \in 1..Len(ran) : ran[j] = "ERROR"
       THEN [status |-> "JUDGEMENT_FAILED", testCaseResults |-> << >>,
             executed |-> Len(ran)]
       ELSE IF ex = "docker"
       THEN [status |-> DockerVerdict(ran \o notExecuted, Len(req.outcomes)),
             testCaseResults |-> ran \o notExecuted,
             executed |-> Len(ran)]
       ELSE [status |-> DirectVerdict(ran, "ACCEPTED"),
             testCaseResults |-> ran,
             executed |-> Len(ran)]

\* WorkerService.processJob for the request in hand.
ProcessJob ==
    /\ execRequest.language \in Languages
    /\ execResults = << >>
    /\ execResults' = Append(execResults, Execute(executor, execRequest))
    /\ UNCHANGED <<setupVars, catalogueVars, persistVars, registryVars,
                   callVars, queueVars,
                   chanVars, queryVars, poolTaskVars, now, task, mu,
                   panicked, workerStatus, executor, execRequest, testRun,
                   testResult>>

\* ------------------------------------------------------------- test case
\* strings.TrimSpace over the characters of Chars.
RECURSIVE TrimLeft(_)
TrimLeft(str) ==
    IF str # << >> /\ Head(str) \in Whitespace
    THEN TrimLeft(Tail(str)) ELSE str

RECURSIVE TrimRight(_)
TrimRight(str) ==
    IF str # << >> /\ str[Len(str)] \in Whitespace
    THEN TrimRight(SubSeq(str, 1, Len(str) - 1)) ELSE str

TrimSpace(str) == TrimRight(TrimLeft(str))

\* strings.ReplaceAll(strings.ReplaceAll(s, " ", ""), "\n", "").
WithoutWhitespace(str) == SelectSeq(str, LAMBDA ch : ch \notin Whitespace)

compareOutput(actual, expected) == TrimSpace(actual) = TrimSpace(expected)

compareOutputIgnoreWhitespace(actual, expected) ==
    WithoutWhitespace(actual) = WithoutWhitespace(expected)

\* The status of a run that ended in time with exit code 0.
OutputStatus(run) ==
    IF compareOutput(run.output, run.expectedOutput) THEN "PASSED"
    ELSE IF compareOutputIgnoreWhitespace(TrimSpace(run.output),
                                          TrimSpace(run.expectedOutput))
    THEN "PRESENTATION_ERROR"
    ELSE "WRONG_ANSWER"

\* The memory the executor has measured for the run: DockerExecutor reads
\* the container's stats, DirectExecutor measures nothing.
MemoryMeasured(ex, run) == IF ex = "docker" THEN run.memoryUsedKb ELSE 0

\* executeTestCase: the tests of the run in the order the code makes them.
executeTestCase(ex, run) ==
    IF run.timedOut THEN "TIME_LIMIT_EXCEEDED"
    ELSE IF run.exitCode # 0 THEN "RUNTIME_ERROR"
    ELSE IF MemoryMeasured(ex, run) > MemoryLimitMb * KbPerMb
    THEN "MEMORY_LIMIT_EXCEEDED"
    ELSE OutputStatus(run)

\* One call of executeTestCase for the run in hand.
ExecuteTestCase ==
    /\ testResult = ""
    /\ testResult' = executeTestCase(executor, testRun)
    /\ UNCHANGED <<setupVars, catalogueVars, persistVars, registryVars,
                   callVars, queueVars,
                   chanVars, queryVars, poolTaskVars, now, task, mu,
                   panicked, workerStatus, executor, execRequest,
                   execResults, testRun>>

\* -------------------------------------------------------- worker registry
\* The clock as the worker registry observes it.
PoolTick ==
    /\ now + tickMs <= MaxPoolTicks * tickMs
    /\ now' = now + tickMs
    /\ UNCHANGED <<setupVars, catalogueVars, persistVars, registryVars,
                   callVars, queueVars,
                   chanVars, queryVars, executorVars, poolTaskVars, task, mu,
                   panicked, workerStatus>>

\* ExecutionQueue.HeartbeatWorker, HGET: the stored status is read, or
\* redis.Nil is returned when the hash has no field for the worker.
HeartbeatRead(w) ==
    /\ heartbeat[w].pc = "idle"
    /\ heartbeat' = [heartbeat EXCEPT
                        ![w] = [pc |-> "read", status |-> workerStatus[w]]]
    /\ UNCHANGED <<setupVars, catalogueVars, persistVars, registryVars,
                   callVars, queueVars,
                   chanVars, queryVars, executorVars, now, task, mu,
                   panicked, workerStatus, activeWorkers, cleanup>>

\* HeartbeatWorker, second part: RegisterWorker when the field was missing,
\* else the status that was read is stored again with LastPing = now.
Heartbeaten(read, t) ==
    IF read.status = "absent"
    THEN WorkerStatus("idle", t, 0)
    ELSE [read EXCEPT !.lastPing = t]

HeartbeatWrite(w) ==
    /\ heartbeat[w].pc = "read"
    /\ workerStatus' =
          [workerStatus EXCEPT ![w] = Heartbeaten(heartbeat[w].status, now)]
    /\ heartbeat' = [heartbeat EXCEPT ![w] = IdleHeartbeat]
    /\ UNCHANGED <<setupVars, catalogueVars, persistVars, registryVars,
                   callVars, queueVars,
                   chanVars, queryVars, executorVars, now, task, mu,
                   panicked, activeWorkers, cleanup>>

\* worker.LastPing.After(cutoff) with cutoff = now - 30s.
IsLive(status, t) == status.lastPing > t - LiveWindowMs

\* ExecutionQueue.GetActiveWorkers: the workers of the hash whose last ping
\* is after the cutoff.
GetActiveWorkers ==
    /\ Len(activeWorkers) < MaxWorkerQueries
    /\ activeWorkers' =
          Append(activeWorkers,
                 {w \in DOMAIN workerStatus :
                     /\ workerStatus[w].status # "absent"
                     /\ IsLive(workerStatus[w], now)})
    /\ UNCHANGED <<setupVars, catalogueVars, persistVars, registryVars,
                   callVars, queueVars,
                   chanVars, queryVars, executorVars, now, task, mu,
                   panicked, workerStatus, heartbeat, cleanup>>

\* worker.LastPing.Before(cutoff).
IsStale(status, cutoff) == status.lastPing < cutoff

\* ExecutionQueue.CleanupStaleWorkers, HGETALL and the cutoff = now - 2m.
\* With an empty hash the loop has no turn and the call returns.
CleanupStaleWorkers ==
    /\ cleanup.pc = "idle"
    /\ LET registered == {w \in DOMAIN workerStatus :
                             workerStatus[w].status # "absent"}
       IN cleanup' =
             IF registered = {} THEN IdleCleanup
             ELSE [pc |-> "scan", workers |-> workerStatus,
                   cutoff |-> now - StaleAfterMs, todo |-> registered]
    /\ UNCHANGED <<setupVars, catalogueVars, persistVars, registryVars,
                   callVars, queueVars,
                   chanVars, queryVars, executorVars, now, task, mu,
                   panicked, workerStatus, heartbeat, activeWorkers>>

\* CleanupStaleWorkers, one turn of the loop over the workers that were
\* read (Go ranges over the map in no fixed order): HDEL when the worker's
\* last ping, as read, is before the cutoff.
CleanupEvict(w) ==
    /\ cleanup.pc = "scan"
    /\ w \in cleanup.todo
    /\ workerStatus' =
          IF IsStale(cleanup.workers[w], cleanup.cutoff)
          THEN [workerStatus EXCEPT ![w] = NoWorkerStatus]
          ELSE workerStatus
    /\ cleanup' =
          IF cleanup.todo = {w}
          THEN IdleCleanup
          ELSE [cleanup EXCEPT !.todo = cleanup.todo \ {w}]
    /\ UNCHANGED <<setupVars, catalogueVars, persistVars, registryVars,
                   callVars, queueVars,
                   chanVars, queryVars, executorVars, now, task, mu,
                   panicked, heartbeat, activeWorkers>>

\* ------------------------------------------------------ leaderboard query
\* ORDER BY solved DESC, total_penalty_seconds ASC: row a must come before
\* row b.  Rows equal on both columns are left in no particular order.
OrderedBefore(rows, a, b) ==
    \/ rows[a].solved > rows[b].solved
    \/ /\ rows[a].solved = rows[b].solved
       /\ rows[a].totalPenaltySeconds < rows[b].totalPenaltySeconds

\* ParticipantRepository.GetParticipantsByContest: the row orders the
\* database may return for the query.
GetParticipantsByContest(rows) ==
    {perm \in [RankedIds -> RankedIds] :
        /\ \A j, k \in RankedIds : j # k => perm[j] # perm[k]
        /\ \A j, k \in RankedIds :
              j < k => ~OrderedBefore(rows, perm[k], perm[j])}

\* ContestService.GetLeaderboard (and the participants of a leaderboard
\* broadcast): the rows in the order the repository returned them, ranked
\* 1, 2, ... by position.
GetLeaderboard ==
    /\ panicked = NoPanic
    /\ Len(leaderboards) < MaxQueries
    /\ \E perm \in GetParticipantsByContest(boardRows) :
          leaderboards' = Append(leaderboards, perm)
    /\ UNCHANGED <<setupVars, catalogueVars, persistVars, registryVars,
                   callVars, queueVars,
                   chanVars, executorVars, poolTaskVars, now, task, mu,
                   panicked, boardRows, workerStatus>>


\* ------------------------------------------------------------------- spec
CreateTask(c) == <<"create", c, 0>>
SubmitTask(i) == <<"submit", i, 0>>
StopTask(c) == <<"stop", c, 0>>
RunTask(c, g) == <<"run", c, g>>
StartTask(c) == <<"start", c, 0>>

\* CreateContest has returned the contest c to its caller.
HasReturned(c) == task[CreateTask(c)].ret = "ok"

\* CreateContest of contest c in which every statement succeeds.
CreateSucceeds(c) ==
    \/ CreateContest(c)
    \/ CreateContestProblems(c, TRUE)
    \/ AddProblemToContest(c, TRUE)
    \/ CreateParticipant(c, TRUE)
    \/ CreateProblemResult(c, TRUE)
    \/ GetCompleteContestData(CreateTask(c), FALSE)

\* The steps of one worker.
WorkerStep(w) ==
    \/ DequeueExecution(w)
    \/ DequeueMarkBusy(w)
    \/ \E v \in WorkerVerdicts : PublishResult(w, v)
    \/ WorkerIdle(w)

\* The steps of the verdict loop up to the broadcast.
IngestStep ==
    \/ HandleReceive
    \/ HandleStatus
    \/ HandleReload
    \/ HandleContest
    \/ HandleLookup
    \/ HandleStatsRead
    \/ HandleStatsUpsert
    \/ HandleStatsUpdate

\* The steps of StopContest made by task t.
StopStep(t) ==
    \/ StopContestLookup(t)
    \/ StopContestClose(t)
    \/ StopContestLocked(t)
    \/ StopContestState(t)
    \/ StopContestCancel(t)
    \/ StopContestDelete(t)

\* A leaderboard broadcast by task t whose query succeeds, to the contest's
\* subscribers if it has any.
BroadcastStep(t) ==
    \/ BroadcastBuild(t, FALSE)
    \/ BroadcastSnapshot(t)
    \/ BroadcastSend(t)

\* One contest and two submissions of its participant, judged and ingested.
ScoringNext ==
    \/ CreateSucceeds(1)
    \/ StartContest(CreateTask(1))
    \/ StartContestRun(CreateTask(1))
    \/ \E t \in {CreateTask(1), SubmitTask(1), SubmitTask(2), Ingest} :
          BroadcastBuild(t, FALSE)
    \/ \E t \in {CreateTask(1), SubmitTask(1), SubmitTask(2), Ingest} :
          BroadcastSnapshot(t)
    \/ \E i \in 1..2, q \in Problems : SubmitSolution(i, 1, 1, q)
    \/ \E i \in 1..2 : CreateSubmission(i)
    \/ \E i \in 1..2, failed \in BOOLEAN :
          ProcessSubmissionLoad(i, failed)
    \/ \E i \in 1..2 : ProcessSubmissionLookup(i)
    \/ \E i \in 1..2, failed \in BOOLEAN :
          ProcessSubmissionPending(i, failed)
    \/ \E i \in 1..2, pushed \in BOOLEAN :
          ProcessSubmissionQueue(i, pushed)
    \/ \E i \in 1..2, failed \in BOOLEAN :
          ProcessSubmissionFailed(i, failed)
    \/ \E w \in DOMAIN worker : WorkerStep(w)
    \/ ForwardResult
    \/ IngestStep

ScoringSpec == Init /\ [][ScoringNext]_vars

\* The same with the clock advancing, for two submissions for one problem.
TimedScoringNext ==
    \/ Tick
    \/ CreateSucceeds(1)
    \/ StartContest(CreateTask(1))
    \/ StartContestRun(CreateTask(1))
    \/ \E t \in {CreateTask(1), SubmitTask(1), SubmitTask(2), Ingest} :
          BroadcastBuild(t, FALSE)
    \/ \E t \in {CreateTask(1), SubmitTask(1), SubmitTask(2), Ingest} :
          BroadcastSnapshot(t)
    \/ \E i \in 1..2 : SubmitSolution(i, 1, 1, 1)
    \/ \E i \in 1..2 : CreateSubmission(i)
    \/ \E i \in 1..2, failed \in BOOLEAN :
          ProcessSubmissionLoad(i, failed)
    \/ \E i \in 1..2 : ProcessSubmissionLookup(i)
    \/ \E i \in 1..2, failed \in BOOLEAN :
          ProcessSubmissionPending(i, failed)
    \/ \E i \in 1..2 : ProcessSubmissionQueue(i, TRUE)
    \/ \E w \in DOMAIN worker : WorkerStep(w)
    \/ ForwardResult
    \/ IngestStep

TimedScoringSpec == Init /\ [][TimedScoringNext]_vars

\* A call of SubmitSolution for submission i has ended.
Submitted(i) ==
    task[SubmitTask(i)].calls > 0 /\ task[SubmitTask(i)].pc = "idle"

\* One contest and three submissions made one after the other for one
\* problem; an enqueue may fail, the worker judges what was queued, and the
\* contest is stopped once by an explicit StopContest, which cancels what
\* is still PENDING.
JudgementFailedNext ==
    \/ CreateSucceeds(1)
    \/ StartContest(CreateTask(1))
    \/ StartContestRun(CreateTask(1))
    \/ \E t \in {CreateTask(1), Ingest, StopTask(1)}
                   \cup {SubmitTask(i) : i \in SubmissionIds} :
          BroadcastBuild(t, FALSE)
    \/ \E t \in {CreateTask(1), Ingest, StopTask(1)}
                   \cup {SubmitTask(i) : i \in SubmissionIds} :
          BroadcastSnapshot(t)
    \/ \E i \in SubmissionIds :
          /\ HasReturned(1)
          /\ \A j \in 1..(i - 1) : Submitted(j)
          /\ SubmitSolution(i, 1, 1, 1)
    \/ \E i \in SubmissionIds : CreateSubmission(i)
    \/ \E i \in SubmissionIds : ProcessSubmissionLoad(i, FALSE)
    \/ \E i \in SubmissionIds : ProcessSubmissionLookup(i)
    \/ \E i \in SubmissionIds : ProcessSubmissionPending(i, FALSE)
    \/ \E i \in SubmissionIds, pushed \in BOOLEAN :
          ProcessSubmissionQueue(i, pushed)
    \/ \E i \in SubmissionIds, failed \in BOOLEAN :
          ProcessSubmissionFailed(i, failed)
    \/ \E w \in DOMAIN worker : WorkerStep(w)
    \/ ForwardResult
    \/ IngestStep
    \/ task[StopTask(1)].calls = 0 /\ StopContestCall(1)
    \/ TimerStopped(1, 1)
    \/ StopStep(StopTask(1))

JudgementFailedSpec == Init /\ [][JudgementFailedNext]_vars

\* The tasks that may broadcast a leaderboard update of contest 1.
Broadcasting == {CreateTask(1), SubmitTask(1), Ingest, StopTask(1), RunTask(1, 1)}

\* One contest from its creation to its end, by an explicit StopContest, by
\* its timer or by both, with one submission judged meanwhile.
StopNext ==
    \/ Tick
    \/ CreateSucceeds(1)
    \/ StartContest(CreateTask(1))
    \/ StartContestRun(CreateTask(1))
    \/ \E t \in Broadcasting : BroadcastBuild(t, FALSE)
    \/ \E t \in Broadcasting : BroadcastSnapshot(t)
    \/ \E q \in Problems : SubmitSolution(1, 1, 1, q)
    \/ CreateSubmission(1)
    \/ ProcessSubmissionLoad(1, FALSE)
    \/ ProcessSubmissionLookup(1)
    \/ ProcessSubmissionPending(1, FALSE)
    \/ \E pushed \in BOOLEAN : ProcessSubmissionQueue(1, pushed)
    \/ \E failed \in BOOLEAN : ProcessSubmissionFailed(1, failed)
    \/ \E w \in DOMAIN worker : WorkerStep(w)
    \/ ForwardResult
    \/ IngestStep
    \/ StopContestCall(1)
    \/ TimerExpire(1, 1)
    \/ TimerStopped(1, 1)
    \/ \E t \in {StopTask(1), RunTask(1, 1)} : StopStep(t)

StopSpec == Init /\ [][StopNext]_vars


\* The same contest, stopped by an explicit StopContest only, when
\* StartContest is called for it once more and a result is delivered a
\* second time.
RestartNext ==
    \/ CreateSucceeds(1)
    \/ HasReturned(1) /\ StartContestCall(1)
    \/ \E t \in {CreateTask(1), StartTask(1)} : StartContest(t)
    \/ \E t \in {CreateTask(1), StartTask(1)} : StartContestRun(t)
    \/ \E t \in Broadcasting \cup {StartTask(1)} :
          BroadcastBuild(t, FALSE)
    \/ \E t \in Broadcasting \cup {StartTask(1)} :
          BroadcastSnapshot(t)
    \/ SubmitSolution(1, 1, 1, 1)
    \/ CreateSubmission(1)
    \/ ProcessSubmissionLoad(1, FALSE)
    \/ ProcessSubmissionLookup(1)
    \/ ProcessSubmissionPending(1, FALSE)
    \/ ProcessSubmissionQueue(1, TRUE)
    \/ \E w \in DOMAIN worker : WorkerStep(w)
    \/ \E r \in published : Redeliver(r)
    \/ ForwardResult
    \/ IngestStep
    \/ StopContestCall(1)
    \/ \E g \in Instances : TimerStopped(1, g)
    \/ \E t \in {StopTask(1)} : StopStep(t)

RestartSpec == Init /\ [][RestartNext]_vars

SubscribeTask(ch) == <<"subscribe", ch, 0>>

\* One contest with a subscriber to its leaderboard, from its creation to
\* its end by an explicit StopContest, by its timer or by both.
EndNext ==
    \/ Tick
    \/ CreateSucceeds(1)
    \/ StartContest(CreateTask(1))
    \/ StartContestRun(CreateTask(1))
    \/ \E t \in {CreateTask(1), StopTask(1), RunTask(1, 1)} : BroadcastStep(t)
    \/ StopContestCall(1)
    \/ TimerStopped(1, 1)
    \/ TimerExpire(1, 1)
    \/ \E t \in {StopTask(1), RunTask(1, 1)} : StopStep(t)
    \/ \E ch \in ChanIds : StreamLeaderboard(ch, 1)
    \/ \E ch \in ChanIds : SubscribeToLeaderboardUpdates(ch)
    \/ \E ch \in ChanIds : StreamRecv(ch)

EndSpec == Init /\ [][EndNext]_vars

\* One contest with a subscriber to its leaderboard and one submission
\* judged, from its creation to its end by its timer: every caller of the
\* leaderboard broadcast at work while the clock advances.
StreamNext ==
    \/ Tick
    \/ CreateSucceeds(1)
    \/ StartContest(CreateTask(1))
    \/ StartContestRun(CreateTask(1))
    \/ \E t \in {CreateTask(1), SubmitTask(1), Ingest, RunTask(1, 1)} :
          BroadcastStep(t)
    \/ SubmitSolution(1, 1, 1, 1)
    \/ CreateSubmission(1)
    \/ ProcessSubmissionLoad(1, FALSE)
    \/ ProcessSubmissionLookup(1)
    \/ ProcessSubmissionPending(1, FALSE)
    \/ ProcessSubmissionQueue(1, TRUE)
    \/ \E w \in DOMAIN worker : WorkerStep(w)
    \/ ForwardResult
    \/ IngestStep
    \/ TimerExpire(1, 1)
    \/ StopStep(RunTask(1, 1))
    \/ \E ch \in ChanIds : StreamLeaderboard(ch, 1)
    \/ \E ch \in ChanIds : SubscribeToLeaderboardUpdates(ch)
    \/ \E ch \in ChanIds : StreamRecv(ch)

StreamSpec == Init /\ [][StreamNext]_vars

\* The scheduling the runtime guarantees in that scenario: the clock
\* advances, every call that was started runs to its end, the timer fires,
\* and the stream loop takes what is in its channel.  New calls from
\* outside are not forced.
EndFairness ==
    /\ WF_vars(Tick)
    /\ WF_vars(\/ CreateContestProblems(1, TRUE)
               \/ AddProblemToContest(1, TRUE)
               \/ CreateParticipant(1, TRUE)
               \/ CreateProblemResult(1, TRUE)
               \/ StartContest(CreateTask(1))
               \/ StartContestRun(CreateTask(1))
               \/ BroadcastStep(CreateTask(1)))
    /\ \A t \in {StopTask(1), RunTask(1, 1)} :
          WF_vars(StopStep(t) \/ BroadcastStep(t))
    /\ WF_vars(TimerExpire(1, 1))
    /\ WF_vars(TimerStopped(1, 1))
    /\ \A ch \in ChanIds :
          /\ WF_vars(SubscribeToLeaderboardUpdates(ch))
          /\ WF_vars(StreamRecv(ch))

FairEndSpec == EndSpec /\ EndFairness

\* One submission on its way from SubmitSolution through the queue, a worker
\* and the results subscription to the verdict loop; the enqueue or the
\* worker's publish may fail.
PipelineNext ==
    \/ CreateSucceeds(1)
    \/ StartContest(CreateTask(1))
    \/ StartContestRun(CreateTask(1))
    \/ \E t \in {CreateTask(1), SubmitTask(1), Ingest} :
          BroadcastBuild(t, FALSE)
    \/ \E t \in {CreateTask(1), SubmitTask(1), Ingest} : BroadcastSnapshot(t)
    \/ \E q \in Problems : SubmitSolution(1, 1, 1, q)
    \/ CreateSubmission(1)
    \/ ProcessSubmissionLoad(1, FALSE)
    \/ ProcessSubmissionLookup(1)
    \/ ProcessSubmissionPending(1, FALSE)
    \/ \E pushed \in BOOLEAN : ProcessSubmissionQueue(1, pushed)
    \/ \E failed \in BOOLEAN : ProcessSubmissionFailed(1, failed)
    \/ \E w \in DOMAIN worker : WorkerStep(w)
    \/ \E w \in DOMAIN worker : PublishFails(w)
    \/ ForwardResult
    \/ IngestStep

PipelineSpec == Init /\ [][PipelineNext]_vars

\* The scheduling the runtime guarantees: every call that was started runs
\* to its end, the worker keeps dequeuing, judging and publishing, the
\* subscription forwards and the verdict loop consumes.  A failing enqueue
\* or publish is not forced, nor is a new call from outside.
PipelineFairness ==
    /\ WF_vars(\/ CreateContestProblems(1, TRUE)
               \/ AddProblemToContest(1, TRUE)
               \/ CreateParticipant(1, TRUE)
               \/ CreateProblemResult(1, TRUE)
               \/ StartContest(CreateTask(1))
               \/ StartContestRun(CreateTask(1))
               \/ GetCompleteContestData(CreateTask(1), FALSE)
               \/ BroadcastBuild(CreateTask(1), FALSE)
               \/ BroadcastSnapshot(CreateTask(1)))
    /\ WF_vars(\/ CreateSubmission(1)
               \/ ProcessSubmissionLoad(1, FALSE)
               \/ ProcessSubmissionLookup(1)
               \/ ProcessSubmissionPending(1, FALSE)
               \/ ProcessSubmissionQueue(1, TRUE)
               \/ \E failed \in BOOLEAN : ProcessSubmissionFailed(1, failed)
               \/ BroadcastBuild(SubmitTask(1), FALSE)
               \/ BroadcastSnapshot(SubmitTask(1)))
    /\ \A w \in Workers : WF_vars(WorkerStep(w))
    /\ WF_vars(ForwardResult)
    /\ WF_vars(\/ IngestStep
               \/ BroadcastBuild(Ingest, FALSE)
               \/ BroadcastSnapshot(Ingest))

FairPipelineSpec == PipelineSpec /\ PipelineFairness

\* The tasks that call StartContest.
Starters == {<<k, c, 0>> : k \in {"create", "start"}, c \in Contests}

\* Two contests competing for the registry: each is created and started
\* again from outside, and the first is stopped, in any interleaving.
AdmissionNext ==
    \/ \E c \in Contests : CreateSucceeds(c)
    \/ \E c \in Contests : StartContestCall(c)
    \/ \E t \in Starters : StartContest(t)
    \/ \E t \in Starters : StartContestRun(t)
    \/ \E t \in Starters \cup {StopTask(1)} :
          BroadcastBuild(t, FALSE)
    \/ \E t \in Starters \cup {StopTask(1)} :
          BroadcastSnapshot(t)
    \/ StopContestCall(1)
    \/ StopStep(StopTask(1))
    \/ \E c \in Contests, g \in Instances : TimerStopped(c, g)

AdmissionSpec == Init /\ [][AdmissionNext]_vars

\* Two contests of which the registry admits one; a submission for the
\* second is handed to ProcessSubmission by SubmitSolution and then once
\* more, under either contest id.
RetryNext ==
    \/ \E c \in Contests : CreateSucceeds(c)
    \/ \E c \in Contests : StartContest(CreateTask(c))
    \/ \E c \in Contests : StartContestRun(CreateTask(c))
    \/ \E t \in {CreateTask(1), CreateTask(2), SubmitTask(1)} :
          BroadcastBuild(t, FALSE)
    \/ \E t \in {CreateTask(1), CreateTask(2), SubmitTask(1)} :
          BroadcastSnapshot(t)
    \/ SubmitSolution(1, 2, 1, 1)
    \/ CreateSubmission(1)
    \/ \E c \in Contests : ProcessSubmission(1, c)
    \/ ProcessSubmissionLoad(1, FALSE)
    \/ ProcessSubmissionLookup(1)
    \/ ProcessSubmissionPending(1, FALSE)
    \/ ProcessSubmissionQueue(1, TRUE)

RetrySpec == Init /\ [][RetryNext]_vars

\* One contest and one submission, observed with clock readings that fall
\* on the contest's ends_at: the contest's timer and an explicit StopContest
\* may end it.
BoundaryNext ==
    \/ Tick
    \/ CreateSucceeds(1)
    \/ StartContest(CreateTask(1))
    \/ StartContestRun(CreateTask(1))
    \/ \E t \in {CreateTask(1), SubmitTask(1), StopTask(1), RunTask(1, 1)} :
          BroadcastBuild(t, FALSE)
    \/ \E t \in {CreateTask(1), SubmitTask(1), StopTask(1), RunTask(1, 1)} :
          BroadcastSnapshot(t)
    \/ \E q \in Problems : SubmitSolution(1, 1, 1, q)
    \/ CreateSubmission(1)
    \/ ProcessSubmissionLoad(1, FALSE)
    \/ ProcessSubmissionLookup(1)
    \/ ProcessSubmissionPending(1, FALSE)
    \/ ProcessSubmissionQueue(1, TRUE)
    \/ StopContestCall(1)
    \/ TimerExpire(1, 1)
    \/ TimerStopped(1, 1)
    \/ \E t \in {StopTask(1), RunTask(1, 1)} : StopStep(t)

BoundarySpec == BoundaryInit /\ [][BoundaryNext]_vars

\* One judged submission whose result keeps arriving at the subscription
\* faster than the verdict loop takes results.
BurstNext ==
    \/ CreateSucceeds(1)
    \/ StartContest(CreateTask(1))
    \/ StartContestRun(CreateTask(1))
    \/ \E t \in {CreateTask(1), SubmitTask(1), Ingest} :
          BroadcastBuild(t, FALSE)
    \/ \E t \in {CreateTask(1), SubmitTask(1), Ingest} : BroadcastSnapshot(t)
    \/ SubmitSolution(1, 1, 1, 1)
    \/ CreateSubmission(1)
    \/ ProcessSubmissionLoad(1, FALSE)
    \/ ProcessSubmissionLookup(1)
    \/ ProcessSubmissionPending(1, FALSE)
    \/ ProcessSubmissionQueue(1, TRUE)
    \/ \E w \in DOMAIN worker : DequeueExecution(w)
    \/ \E w \in DOMAIN worker : DequeueMarkBusy(w)
    \/ \E w \in DOMAIN worker : PublishResult(w, "ACCEPTED")
    \/ \E w \in DOMAIN worker : WorkerIdle(w)
    \/ \E r \in published : RedeliverBurst(r)
    \/ ForwardResult
    \/ IngestStep

BurstSpec == Init /\ [][BurstNext]_vars

\* The facade under requests that pass its tests and requests that do not.
\* The first contest is created with problems drawn at random, the second
\* with those or with the problems of the ids of its request.
FacadeNext ==
    \/ \E c \in Contests : CreateSucceeds(c)
    \/ \E numProblems \in -1..1, numModels \in 0..1 :
          CreateContestInvalid(numProblems, numModels)
    \/ \E ids \in ProblemIdLists, numModels \in 0..1 :
          CreateContestWithProblems(2, ids, numModels)
    \/ \E failed \in BOOLEAN : CreateContestWithProblemsIds(2, failed)
    \/ \E c \in Contests : AddProblemToContest(c, FALSE)
    \/ \E c \in Contests : StartContest(CreateTask(c))
    \/ \E c \in Contests : StartContestRun(CreateTask(c))
    \/ \E t \in {CreateTask(1), CreateTask(2), SubmitTask(1)} :
          BroadcastBuild(t, FALSE)
    \/ \E t \in {CreateTask(1), CreateTask(2), SubmitTask(1)} :
          BroadcastSnapshot(t)
    \/ \E c \in Contests : SubmitSolution(1, c, 1, 1)
    \/ CreateSubmission(1)
    \/ ProcessSubmissionLoad(1, FALSE)
    \/ ProcessSubmissionLookup(1)
    \/ ProcessSubmissionPending(1, FALSE)
    \/ ProcessSubmissionQueue(1, TRUE)
    \/ \E c \in Contests, wellFormed \in BOOLEAN,
          language \in Languages \cup {"UNSPECIFIED"} :
          SubmitSolutionInvalid(c, wellFormed, language)

FacadeSpec == Init /\ [][FacadeNext]_vars

\* The judging pipeline with results that name no stored submission.
IngestNext ==
    \/ CreateSucceeds(1)
    \/ StartContest(CreateTask(1))
    \/ StartContestRun(CreateTask(1))
    \/ \E t \in {CreateTask(1), SubmitTask(1), Ingest} :
          BroadcastBuild(t, FALSE)
    \/ \E t \in {CreateTask(1), SubmitTask(1), Ingest} : BroadcastSnapshot(t)
    \/ \E q \in Problems : SubmitSolution(1, 1, 1, q)
    \/ CreateSubmission(1)
    \/ ProcessSubmissionLoad(1, FALSE)
    \/ ProcessSubmissionLookup(1)
    \/ ProcessSubmissionPending(1, FALSE)
    \/ ProcessSubmissionQueue(1, TRUE)
    \/ \E w \in DOMAIN worker : WorkerStep(w)
    \/ \E v \in WorkerVerdicts : PublishForeignResult(v)
    \/ ForwardResult
    \/ IngestStep

IngestSpec == Init /\ [][IngestNext]_vars

\* Two contests in a registry with room for both: each is created, the
\* first is started again from outside while it is registered, a
\* leaderboard broadcast may fail, and the first contest is stopped.
RollbackInit ==
    Start(TickMs, RollbackCapacity, Workers) /\ NoQuery /\ NoExecution

RollbackNext ==
    \/ \E c \in Contests : CreateSucceeds(c)
    \/ StartContestCall(1)
    \/ \E t \in Starters : StartContest(t)
    \/ \E t \in Starters : StartContestRollback(t)
    \/ \E t \in Starters : StartContestRun(t)
    \/ \E t \in Starters \cup {StopTask(1)}, failed \in BOOLEAN :
          BroadcastBuild(t, failed)
    \/ \E t \in Starters \cup {StopTask(1)} : BroadcastSnapshot(t)
    \/ StopContestCall(1)
    \/ StopStep(StopTask(1))
    \/ \E c \in Contests, g \in Instances : TimerStopped(c, g)

RollbackSpec == RollbackInit /\ [][RollbackNext]_vars

\* CreateContest with statements that may fail, and one submission made for
\* the contest as soon as its row is stored.
CreationNext ==
    \/ CreateContest(1)
    \/ \E ok \in BOOLEAN : CreateContestProblems(1, ok)
    \/ \E ok \in BOOLEAN : AddProblemToContest(1, ok)
    \/ \E ok \in BOOLEAN : CreateParticipant(1, ok)
    \/ \E ok \in BOOLEAN : CreateProblemResult(1, ok)
    \/ StartContest(CreateTask(1))
    \/ StartContestRollback(CreateTask(1))
    \/ StartContestRun(CreateTask(1))
    \/ \E failed \in BOOLEAN : GetContestRequest(1, failed)
    \/ \E t \in {CreateTask(1), <<"get", 1, 0>>}, failed \in BOOLEAN :
          GetCompleteContestData(t, failed)
    \/ \E failed \in BOOLEAN : BroadcastBuild(CreateTask(1), failed)
    \/ \E t \in {SubmitTask(1), Ingest} : BroadcastBuild(t, FALSE)
    \/ \E t \in {CreateTask(1), SubmitTask(1), Ingest} : BroadcastSnapshot(t)
    \/ \E q \in Problems : SubmitSolution(1, 1, 1, q)
    \/ CreateSubmission(1)
    \/ \E c \in Contests : ProcessSubmission(1, c)
    \/ ProcessSubmissionLoad(1, FALSE)
    \/ ProcessSubmissionLookup(1)
    \/ ProcessSubmissionPending(1, FALSE)
    \/ ProcessSubmissionQueue(1, TRUE)
    \/ \E w \in DOMAIN worker : WorkerStep(w)
    \/ ForwardResult
    \/ IngestStep

CreationSpec == Init /\ [][CreationNext]_vars

\* The tasks of the coordinator about one contest.
LockTasks ==
    {CreateTask(1), SubmitTask(1), Ingest, StopTask(1), RunTask(1, 1),
     SubscribeTask(1)}

\* Every task of the coordinator at work on one contest, with the waits in
\* c.mu.Lock() and c.mu.RLock() written out.  The requests that name the
\* contest are made once CreateContest has returned it, StopContest once.
LockNext ==
    \/ Tick
    \/ CreateSucceeds(1)
    \/ StartContest(CreateTask(1))
    \/ StartContestRun(CreateTask(1))
    \/ \E t \in LockTasks \ {SubscribeTask(1)} : BroadcastStep(t)
    \/ HasReturned(1) /\ SubmitSolution(1, 1, 1, 1)
    \/ CreateSubmission(1)
    \/ ProcessSubmissionLoad(1, FALSE)
    \/ ProcessSubmissionLookup(1)
    \/ ProcessSubmissionPending(1, FALSE)
    \/ ProcessSubmissionQueue(1, TRUE)
    \/ \E w \in DOMAIN worker : DequeueExecution(w)
    \/ \E w \in DOMAIN worker : DequeueMarkBusy(w)
    \/ \E w \in DOMAIN worker : PublishResult(w, "ACCEPTED")
    \/ \E w \in DOMAIN worker : WorkerIdle(w)
    \/ ForwardResult
    \/ IngestStep
    \/ HasReturned(1) /\ task[StopTask(1)].calls = 0 /\ StopContestCall(1)
    \/ TimerExpire(1, 1)
    \/ TimerStopped(1, 1)
    \/ \E t \in {StopTask(1), RunTask(1, 1)} : StopStep(t)
    \/ HasReturned(1) /\ StreamLeaderboard(1, 1)
    \/ SubscribeToLeaderboardUpdates(1)
    \/ StreamRecv(1)
    \/ \E t \in LockTasks : LockPending(t)
    \/ \E t \in LockTasks : RLockBlocked(t)

LockSpec == Init /\ [][LockNext]_vars

\* The scheduler runs every goroutine that can run: each call that was
\* started goes on, the worker and the subscription go on, and the clock
\* advances.  New calls from outside are not forced, nor is a goroutine
\* forced to be the one that waits.
LockFairness ==
    /\ WF_vars(Tick)
    /\ WF_vars(\/ CreateContestProblems(1, TRUE)
               \/ AddProblemToContest(1, TRUE)
               \/ CreateParticipant(1, TRUE)
               \/ CreateProblemResult(1, TRUE)
               \/ StartContest(CreateTask(1))
               \/ StartContestRun(CreateTask(1))
               \/ GetCompleteContestData(CreateTask(1), FALSE)
               \/ BroadcastStep(CreateTask(1)))
    /\ WF_vars(\/ CreateSubmission(1)
               \/ ProcessSubmissionLoad(1, FALSE)
               \/ ProcessSubmissionLookup(1)
               \/ ProcessSubmissionPending(1, FALSE)
               \/ ProcessSubmissionQueue(1, TRUE)
               \/ BroadcastStep(SubmitTask(1)))
    /\ \A w \in Workers :
          WF_vars(\/ DequeueExecution(w)
                  \/ DequeueMarkBusy(w)
                  \/ PublishResult(w, "ACCEPTED")
                  \/ WorkerIdle(w))
    /\ WF_vars(ForwardResult)
    /\ WF_vars(IngestStep \/ BroadcastStep(Ingest))
    /\ \A t \in {StopTask(1), RunTask(1, 1)} :
          WF_vars(StopStep(t) \/ BroadcastStep(t))
    /\ WF_vars(TimerExpire(1, 1))
    /\ WF_vars(TimerStopped(1, 1))
    /\ WF_vars(SubscribeToLeaderboardUpdates(1))
    /\ WF_vars(StreamRecv(1))

FairLockSpec == LockSpec /\ LockFairness

\* One contest and its submissions, from intake to the enqueue.
Intake ==
    \/ CreateSucceeds(1)
    \/ StartContest(CreateTask(1))
    \/ StartContestRun(CreateTask(1))
    \/ \E t \in {CreateTask(1)} \cup {SubmitTask(i) : i \in 1..2} :
          BroadcastBuild(t, FALSE)
    \/ \E t \in {CreateTask(1)} \cup {SubmitTask(i) : i \in 1..2} :
          BroadcastSnapshot(t)
    \/ \E i \in 1..2 : SubmitSolution(i, 1, 1, 1)
    \/ \E i \in 1..2 : CreateSubmission(i)
    \/ \E i \in 1..2, failed \in BOOLEAN :
          ProcessSubmissionLoad(i, failed)
    \/ \E i \in 1..2 : ProcessSubmissionLookup(i)
    \/ \E i \in 1..2, failed \in BOOLEAN :
          ProcessSubmissionPending(i, failed)
    \/ \E i \in 1..2 : ProcessSubmissionQueue(i, TRUE)

\* A pool of workers dequeuing side by side from one queue, on which another
\* client may leave an element that is no job.
PoolInit ==
    Start(TickMs, MaxConcurrentContests, PoolWorkers)
    /\ NoQuery /\ NoExecution

PoolNext ==
    \/ Intake
    \/ PushMalformedJob
    \/ \E w \in DOMAIN worker : WorkerStep(w)
    \/ \E w \in DOMAIN worker : PublishFails(w)

PoolSpec == PoolInit /\ [][PoolNext]_vars

\* A worker judging one submission while its heartbeat task runs.
HeartbeatNext ==
    \/ Tick
    \/ CreateSucceeds(1)
    \/ StartContest(CreateTask(1))
    \/ StartContestRun(CreateTask(1))
    \/ \E t \in {CreateTask(1), SubmitTask(1)} : BroadcastBuild(t, FALSE)
    \/ \E t \in {CreateTask(1), SubmitTask(1)} : BroadcastSnapshot(t)
    \/ SubmitSolution(1, 1, 1, 1)
    \/ CreateSubmission(1)
    \/ ProcessSubmissionLoad(1, FALSE)
    \/ ProcessSubmissionLookup(1)
    \/ ProcessSubmissionPending(1, FALSE)
    \/ ProcessSubmissionQueue(1, TRUE)
    \/ \E w \in DOMAIN worker : WorkerStep(w)
    \/ \E w \in DOMAIN worker : HeartbeatRead(w)
    \/ \E w \in DOMAIN worker : HeartbeatWrite(w)

HeartbeatSpec == Init /\ [][HeartbeatNext]_vars

\* The worker registry of a pool: the heartbeat tasks of its workers and
\* the readers of the registry, over two and a half minutes.
RegistryInit ==
    Start(PoolTickMs, MaxConcurrentContests, PoolWorkers)
    /\ NoQuery /\ NoExecution

RegistryNext ==
    \/ PoolTick
    \/ \E w \in DOMAIN worker : HeartbeatRead(w)
    \/ \E w \in DOMAIN worker : HeartbeatWrite(w)
    \/ GetActiveWorkers
    \/ CleanupStaleWorkers
    \/ \E w \in DOMAIN worker : CleanupEvict(w)

RegistrySpec == RegistryInit /\ [][RegistryNext]_vars

\* Leaderboard queries over the participants of one contest, whose counters
\* are any the scoring can produce.
RankedRows ==
    [solved : 0..1, totalPenaltySeconds : {0, PenaltyPerAttempt}]

LeaderboardInit ==
    /\ Start(TickMs, MaxConcurrentContests, Workers)
    /\ boardRows \in [RankedIds -> RankedRows]
    /\ leaderboards = << >>
    /\ NoExecution

LeaderboardSpec == LeaderboardInit /\ [][GetLeaderboard]_vars

\* One job judged by a worker: any language, a compilation that succeeds or
\* fails, and test cases with any outcomes.
TestOutcomeSeqs == UNION {[1..n -> TestOutcomes] : n \in 0..MaxTestCases}

ExecutorInit ==
    /\ Start(TickMs, MaxConcurrentContests, Workers)
    /\ NoQuery
    /\ executor \in Executors
    /\ execRequest \in [language : Languages, compiles : BOOLEAN,
                         outcomes : TestOutcomeSeqs]
    /\ execResults = << >>
    /\ testRun = NoTestRun
    /\ testResult = ""

ExecutorSpec == ExecutorInit /\ [][ProcessJob]_vars

\* One test case judged by an executor: a run that ends in time or not,
\* with any exit code, memory use and output.
TestRuns ==
    [timedOut : BOOLEAN, exitCode : {0, 1},
     memoryUsedKb : {MemoryLimitMb * KbPerMb, MemoryLimitMb * KbPerMb + 1},
     output : Outputs, expectedOutput : Outputs]

TestCaseInit ==
    /\ Start(TickMs, MaxConcurrentContests, Workers)
    /\ NoQuery
    /\ executor \in Executors
    /\ execRequest = NoRequest
    /\ execResults = << >>
    /\ testRun \in TestRuns
    /\ testResult = ""

TestCaseSpec == TestCaseInit /\ [][ExecuteTestCase]_vars

\* ------------------------------------------------- repository maintenance
\* ContestRepository.DeleteContest and ParticipantRepository.DeleteParticipant
\* are exported by the repository package; no request handler, coordinator
\* goroutine or worker calls them.  The statement is refused by the foreign
\* key of a submission that names the row; otherwise the row is deleted and
\* the deletion cascades to the contest's participants and to their
\* ProblemResults, and the contest's contest_problems rows go with it.
\* ProblemRepository.DeleteProblem is called by
\* cmd/delete-problem and ProblemRepository.CreateProblem by
\* cmd/import-problems, programs of their own that work on the database
\* while the service runs or after it has died.
DeleteRefused(subs, keyOf, key) ==
    \E i \in DOMAIN subs : subs[i].status # "NONE" /\ keyOf[i] = key

DeleteContest(c) ==
    /\ contests[c].state # "NONE"
    /\ ~DeleteRefused(submissions,
                      [i \in SubmissionIds |-> submissions[i].contest], c)
    /\ contests' = [contests EXCEPT ![c] = NoContest]
    /\ participants' =
          [k \in ParticipantKeys |->
              IF k[1] = c THEN NoParticipant ELSE participants[k]]
    /\ problemResults' =
          [k \in ResultKeys |->
              IF k[1] = c THEN NoProblemResult ELSE problemResults[k]]
    /\ contestProblems' = {k \in contestProblems : k[1] # c}
    /\ UNCHANGED <<setupVars, problems, queryVars, executorVars, poolVars,
                   now, submissions, task, mu, registryVars, panicked,
                   queueVars, callVars, chanVars>>

DeleteParticipant(c, p) ==
    /\ participants[<<c, p>>].stored
    /\ ~DeleteRefused(submissions,
                      [i \in SubmissionIds |->
                          <<submissions[i].contest,
                            submissions[i].participant>>], <<c, p>>)
    /\ participants' = [participants EXCEPT ![<<c, p>>] = NoParticipant]
    /\ problemResults' =
          [k \in ResultKeys |->
              IF k[1] = c /\ k[2] = p THEN NoProblemResult
              ELSE problemResults[k]]
    /\ UNCHANGED <<coordFrame, contests, submissions, task, mu, registryVars,
                   panicked, queueVars, callVars, chanVars>>

\* ProblemRepository.CreateProblem, called by the importer
\* (cmd/import-problems) and by the test helpers: a problem row is
\* inserted under an id that names no stored problem.
CreateProblem(q) ==
    /\ ~problems[q]
    /\ problems' = [problems EXCEPT ![q] = TRUE]
    /\ UNCHANGED <<setupVars, contestProblems, queryVars, executorVars,
                   poolVars, now, persistVars, task, mu, registryVars,
                   panicked, queueVars, callVars, chanVars>>

\* ProblemRepository.DeleteProblem, one transaction: the test cases, the
\* ProblemResults, the submissions and the contest_problems rows that name
\* the problem are deleted, then the problem.
DeleteProblem(q) ==
    /\ problems[q]
    /\ problems' = [problems EXCEPT ![q] = FALSE]
    /\ problemResults' =
          [k \in ResultKeys |->
              IF k[3] = q THEN NoProblemResult ELSE problemResults[k]]
    /\ submissions' =
          [i \in SubmissionIds |->
              IF submissions[i].status # "NONE" /\ submissions[i].problem = q
              THEN NoSubmission ELSE submissions[i]]
    /\ contestProblems' = {k \in contestProblems : k[2] # q}
    /\ UNCHANGED <<setupVars, queryVars, executorVars, poolVars, now,
                   contests, participants, task, mu, registryVars, panicked,
                   queueVars, callVars, chanVars>>

\* --------------------------------------------------------------- the whole
\* Every step of the program and of the services around it (the clock, the
\* Redis server and its other clients).  The scenarios above are parts of
\* it.
Next ==
    \/ Tick
    \/ \E c \in Contests : CreateContest(c)
    \/ \E c \in Contests, ok \in BOOLEAN : CreateContestProblems(c, ok)
    \/ \E c \in Contests, ok \in BOOLEAN : AddProblemToContest(c, ok)
    \/ \E c \in Contests, ok \in BOOLEAN : CreateParticipant(c, ok)
    \/ \E c \in Contests, ok \in BOOLEAN : CreateProblemResult(c, ok)
    \/ \E numProblems \in -1..1, numModels \in 0..1 :
          CreateContestInvalid(numProblems, numModels)
    \/ \E c \in Contests, ids \in ProblemIdLists, numModels \in 0..1 :
          CreateContestWithProblems(c, ids, numModels)
    \/ \E c \in Contests, failed \in BOOLEAN :
          CreateContestWithProblemsIds(c, failed)
    \/ \E c \in Contests : StartContestCall(c)
    \/ \E t \in Starters : StartContest(t)
    \/ \E t \in Starters : StartContestRollback(t)
    \/ \E t \in Starters : StartContestRun(t)
    \/ \E c \in Contests, failed \in BOOLEAN : GetContestRequest(c, failed)
    \/ \E t \in Tasks, failed \in BOOLEAN : GetCompleteContestData(t, failed)
    \/ \E t \in Tasks, failed \in BOOLEAN : BroadcastBuild(t, failed)
    \/ \E t \in Tasks : BroadcastSnapshot(t)
    \/ \E t \in Tasks : BroadcastSend(t)
    \/ \E i \in SubmissionIds, c \in Contests, p \in ParticipantIdx,
          q \in Problems : SubmitSolution(i, c, p, q)
    \/ \E c \in Contests, wellFormed \in BOOLEAN,
          language \in Languages \cup {"UNSPECIFIED"} :
          SubmitSolutionInvalid(c, wellFormed, language)
    \/ \E i \in SubmissionIds : CreateSubmission(i)
    \/ \E i \in SubmissionIds, c \in Contests : ProcessSubmission(i, c)
    \/ \E i \in SubmissionIds, failed \in BOOLEAN :
          ProcessSubmissionLoad(i, failed)
    \/ \E i \in SubmissionIds : ProcessSubmissionLookup(i)
    \/ \E i \in SubmissionIds, failed \in BOOLEAN :
          ProcessSubmissionPending(i, failed)
    \/ \E i \in SubmissionIds, pushed \in BOOLEAN :
          ProcessSubmissionQueue(i, pushed)
    \/ \E i \in SubmissionIds, failed \in BOOLEAN :
          ProcessSubmissionFailed(i, failed)
    \/ \E c \in Contests : StopContestCall(c)
    \/ \E c \in Contests, g \in Instances : TimerExpire(c, g)
    \/ \E c \in Contests, g \in Instances : TimerStopped(c, g)
    \/ \E t \in Tasks : StopStep(t)
    \/ \E ch \in ChanIds, c \in Contests : StreamLeaderboard(ch, c)
    \/ \E ch \in ChanIds : SubscribeToLeaderboardUpdates(ch)
    \/ \E ch \in ChanIds : StreamRecv(ch)
    \/ \E t \in Tasks : LockPending(t)
    \/ \E t \in Tasks : RLockBlocked(t)
    \/ \E w \in DOMAIN worker : WorkerStep(w)
    \/ \E w \in DOMAIN worker : PublishFails(w)
    \/ PushMalformedJob
    \/ ForwardResult
    \/ \E r \in published : Redeliver(r)
    \/ \E v \in WorkerVerdicts : PublishForeignResult(v)
    \/ IngestStep
    \/ \E w \in DOMAIN worker : HeartbeatRead(w)
    \/ \E w \in DOMAIN worker : HeartbeatWrite(w)
    \/ GetActiveWorkers
    \/ CleanupStaleWorkers
    \/ \E w \in DOMAIN worker : CleanupEvict(w)

Spec == Init /\ [][Next]_vars

\* The program with the repository's maintenance operations called by a
\* tool linked against the package.
AdminNext ==
    \/ Next
    \/ \E c \in Contests : DeleteContest(c)
    \/ \E c \in Contests, p \in ParticipantIdx : DeleteParticipant(c, p)
    \/ \E q \in Problems : CreateProblem(q)
    \/ \E q \in Problems : DeleteProblem(q)

AdminSpec == Init /\ [][AdminNext]_vars

\* ----------------------------------------------------------------- claims
KeyOf(i) ==
    <<submissions[i].contest, submissions[i].participant,
      submissions[i].problem>>

\* Positions of the log whose result passed the active check, for key k.
ActiveEntries(k) ==
    {j \in 1..Len(ingestLog) :
        ingestLog[j].active /\ KeyOf(ingestLog[j].submission) = k}

\* The verdict loop is between two results.
IngestIdle == task[Ingest].pc = "idle"
\* The step is one of the verdict loop.
IngestSteps == task'[Ingest] # task[Ingest]

\* C5: once a ProblemResult is ACCEPTED, no later verdict changes its
\* status, penalty_count or penalty_seconds.
C5_AcceptedFrozen ==
    [][\A k \in ResultKeys :
          problemResults[k].status = "ACCEPTED"
          => problemResults'[k] = problemResults[k]]_vars

\* C5 witness: a verdict for the same (participant, problem) was handled to
\* its end, contest active, after an ACCEPTED one.
C5_Witness ==
    /\ IngestIdle
    /\ \E k \in ResultKeys : \E j1, j2 \in ActiveEntries(k) :
          /\ j1 < j2
          /\ ingestLog[j1].status = "ACCEPTED"
          /\ problemResults[k].status = "ACCEPTED"

\* User-fault verdicts handled for key k, contest active, before the first
\* ACCEPTED one.
FaultsBeforeAccept(k) ==
    Cardinality({j \in ActiveEntries(k) :
        /\ ingestLog[j].status \in UserFaultStatuses
        /\ \A j0 \in ActiveEntries(k) :
              ingestLog[j0].status = "ACCEPTED" => j < j0})

\* C6: each user-fault verdict handled for an active contest while the
\* ProblemResult is not ACCEPTED adds exactly one to penalty_count and makes
\* a NON_TRIED ProblemResult TRIED; wrong-then-accepted gives
\* penalty_count = 1.
C6_WrongVerdictPenalised ==
    IngestIdle
    => \A k \in ResultKeys :
          /\ problemResults[k].penaltyCount = FaultsBeforeAccept(k)
          /\ (FaultsBeforeAccept(k) > 0
              /\ problemResults[k].status # "ACCEPTED")
             => problemResults[k].status = "TRIED"

AcceptedProblems(c, p) ==
    {q \in Problems : problemResults[<<c, p, q>>].status = "ACCEPTED"}

RECURSIVE PenaltySum(_, _, _)
PenaltySum(c, p, qs) ==
    IF qs = {} THEN 0
    ELSE LET q == CHOOSE x \in qs : TRUE
         IN problemResults[<<c, p, q>>].penaltySeconds
            + 60 * problemResults[<<c, p, q>>].penaltyCount
            + PenaltySum(c, p, qs \ {q})

\* C7: in every persisted state, solved is the number of ACCEPTED
\* ProblemResults and total_penalty_seconds the sum over them of
\* penalty_seconds + 60 * penalty_count.
C7_AggregatesMatch ==
    \A k \in ParticipantKeys :
        /\ participants[k].solved
             = Cardinality(AcceptedProblems(k[1], k[2]))
        /\ participants[k].totalPenaltySeconds
             = PenaltySum(k[1], k[2], AcceptedProblems(k[1], k[2]))

\* A step that delivers JUDGEMENT_FAILED: a submission's status becomes
\* JUDGEMENT_FAILED (the worker's result, a failed enqueue, the cancellation
\* at the contest's end), or the verdict loop goes on with a
\* JUDGEMENT_FAILED result.
DeliversJudgementFailed ==
    \/ \E i \in SubmissionIds :
          /\ submissions'[i].status = "JUDGEMENT_FAILED"
          /\ submissions[i].status # "JUDGEMENT_FAILED"
    \/ task[Ingest].status = "JUDGEMENT_FAILED" /\ IngestSteps

\* C8: a JUDGEMENT_FAILED verdict never increases any penalty_count.
C8_JudgementFailedNoPenalty ==
    [][DeliversJudgementFailed
       => \A k \in ResultKeys :
             problemResults'[k].penaltyCount
               <= problemResults[k].penaltyCount]_vars

\* C8 witness: JUDGEMENT_FAILED has been delivered in each of the three
\* ways: a JUDGEMENT_FAILED result was handled to its end while its contest
\* was active, a failed enqueue has made another submission
\* JUDGEMENT_FAILED, and StopContest has cancelled a third one that was
\* still PENDING.
C8_Witness ==
    /\ IngestIdle
    /\ \E j \in 1..Len(ingestLog) :
          ingestLog[j].active /\ ingestLog[j].status = "JUDGEMENT_FAILED"
    /\ \E i \in SubmissionIds :
          /\ submissions[i].status = "JUDGEMENT_FAILED"
          /\ submissions[i].message = "Failed to queue for execution"
    /\ \E i \in SubmissionIds :
          /\ submissions[i].status = "JUDGEMENT_FAILED"
          /\ submissions[i].message = "contest ended"

\* The submissions whose verdicts were handled for key k, contest active.
ActiveSubmissions(k) == {ingestLog[j].submission : j \in ActiveEntries(k)}

VerdictOf(i) ==
    (CHOOSE r \in published : r.submission = i).status

\* The first of a set of submissions by (submitted_at, id).
Earliest(S) ==
    CHOOSE i \in S : \A j \in S :
        \/ submissions[i].submittedAt < submissions[j].submittedAt
        \/ /\ submissions[i].submittedAt = submissions[j].submittedAt
           /\ i <= j

\* The ProblemResult reached when the verdicts of S are handled in
\* submission order, starting from pr.
RECURSIVE InSubmissionOrder(_, _)
InSubmissionOrder(pr, S) ==
    IF S = {} THEN pr
    ELSE LET i == Earliest(S)
             next == IF NeedsStatsUpdate(VerdictOf(i))
                     THEN UpdatedProblemResult(pr, VerdictOf(i),
                              submissions[i].submittedAt,
                              contests[submissions[i].contest].startedAt)
                     ELSE pr
         IN InSubmissionOrder(next, S \ {i})

\* C10: the ProblemResult reached does not depend on the order in which the
\* verdicts arrived: it is the one reached in submission order.
C10_OrderIndependent ==
    IngestIdle
    => \A k \in ResultKeys :
          problemResults[k].status # "NONE"
          => problemResults[k]
               = InSubmissionOrder(NewProblemResult, ActiveSubmissions(k))

\* C35: a stored ProblemResult has penalty_seconds > 0 exactly when its
\* status is ACCEPTED.
C35_PenaltySecondsIffAccepted ==
    \A k \in ResultKeys :
        problemResults[k].status # "NONE"
        => (problemResults[k].penaltySeconds > 0
            <=> problemResults[k].status = "ACCEPTED")

\* C2: once a submission's persisted status is terminal, no step changes it.
C2_TerminalImmutable ==
    [][\A i \in SubmissionIds :
          IsTerminal(submissions[i].status)
          => submissions'[i].status = submissions[i].status]_vars

\* C4: once a contest is persisted FINISHED, its participants' counters and
\* its ProblemResults never change.
C4_FinishedFrozen ==
    [][\A c \in Contests :
          contests[c].state = "FINISHED"
          => /\ \A k \in ParticipantKeys :
                   k[1] = c => participants'[k] = participants[k]
             /\ \A k \in ResultKeys :
                   k[1] = c => problemResults'[k] = problemResults[k]]_vars

\* C11: StopContest is idempotent: however two calls for one contest are
\* interleaved (the timer racing an explicit stop included), no call faults
\* by closing stopChan a second time.
C11_StopNeverFaults == panicked # CloseOfClosedChannel

\* C16: a contest persisted FINISHED never returns to RUNNING (or to any
\* other state).
C16_FinishedIsTerminal ==
    [][\A c \in Contests :
          contests[c].state = "FINISHED"
          => contests'[c].state = "FINISHED"]_vars

\* C16 witness: StartContest has run on a FINISHED contest, which is
\* registered again with a new instance and a new run goroutine, and a
\* second StopContest has persisted FINISHED over FINISHED.
C16_Witness ==
    \E c \in Contests :
        /\ contests[c].state = "FINISHED"
        /\ task[<<"start", c, 0>>].ret = "ok"
        /\ stopChan[c][2] = "closed"
        /\ task[<<"stop", c, 0>>].calls = 2
        /\ task[<<"stop", c, 0>>].pc = "stop-delete"

\* The positions of a task that is in StopContest.
StopSites ==
    {"stop-lock", "stop-close", "stop-state", "stop-cancel", "broadcast",
     "bcast-rlock", "bcast-send", "stop-delete"}

\* The tasks that call StopContest for contest c.
Stoppers(c) == {<<"stop", c, 0>>} \cup {<<"run", c, g>> : g \in Instances}

\* StopContest has run to its end for contest c, and no call of it is under
\* way.
Stopped(c) ==
    /\ contests[c].state = "FINISHED"
    /\ c \notin DOMAIN activeContests
    /\ \A t \in Stoppers(c) : task[t].pc \notin StopSites

\* C26: every contest in the registry is persisted RUNNING, also while a
\* StopContest is in progress and after StartContest was called for a
\* FINISHED contest.  The registry is looked at when no task holds the write
\* lock, which is when another task can read it.
C26_ActiveAreRunning ==
    mu.writer = NoHolder
    => \A c \in DOMAIN activeContests : contests[c].state = "RUNNING"

\* C29: once StopContest has returned for a contest, no submission of that
\* contest is PENDING, also when a ProcessSubmission for the contest runs
\* concurrently with the stop.
C29_NoPendingAfterStop ==
    \A c \in Contests :
        Stopped(c)
        => \A i \in SubmissionIds :
              submissions[i].contest = c => submissions[i].status # "PENDING"

\* The result the verdict loop is handling was handled before.
HandledBefore ==
    \E j \in 1..Len(ingestLog) :
        /\ ingestLog[j].submission = task[Ingest].sub
        /\ ingestLog[j].status = task[Ingest].status
        /\ j < Len(ingestLog) \/ task[Ingest].pc \notin
              {"stats-read", "stats-upsert", "stats-update", "broadcast",
               "bcast-rlock", "bcast-send"}

\* C9: handling a result that was handled before changes no ProblemResult
\* and no participant counter.
C9_RedeliveryIdempotent ==
    [][(IngestSteps /\ task[Ingest].pc # "idle" /\ HandledBefore)
       => UNCHANGED rankingVars]_vars

\* C28: when the enqueue step of ProcessSubmission fails, the call returns
\* an error with the submission persisted JUDGEMENT_FAILED and no job for
\* the submission in the queue.
C28_EnqueueFailureMarked ==
    [][\A i \in SubmissionIds :
          (task'[<<"submit", i, 0>>].ret = "failed"
           /\ task[<<"submit", i, 0>>].ret # "failed")
          => /\ submissions'[i].status = "JUDGEMENT_FAILED"
             /\ ~\E j \in 1..Len(jobsQueue') : jobsQueue'[j] = i
             /\ ~\E j \in 1..Len(jobLog') : jobLog'[j].job = i]_vars

\* The updates a subscriber has been given, oldest first: those already sent
\* on its stream, then those waiting in its channel.
Received(ch) == streams[ch].sent \o updateChans[ch].buf

\* Channel ch was subscribed to a contest and a StopContest has since
\* discarded that contest's subscriber list.
Discarded(ch) ==
    /\ updateChans[ch].contest # 0
    /\ Stopped(updateChans[ch].contest)
    /\ \A c \in DOMAIN leaderboardSubscribers :
          \A j \in 1..Len(leaderboardSubscribers[c]) :
             leaderboardSubscribers[c][j] # ch

\* C13: a subscriber of a stopped contest has been given exactly one final
\* update, sent by StopContest, and it is the last update it is given.
C13_OneFinalUpdate ==
    \A ch \in ChanIds :
        Discarded(ch)
        => /\ Received(ch) # << >>
           /\ Received(ch)[Len(Received(ch))].by = "stop"
           /\ Cardinality({j \in 1..Len(Received(ch)) :
                              Received(ch)[j].by = "stop"}) = 1

\* C20: the updates given to one subscriber have non-decreasing updated_at.
C20_UpdatedAtMonotonic ==
    \A ch \in ChanIds :
        \A j \in 1..(Len(Received(ch)) - 1) :
            Received(ch)[j].updatedAt <= Received(ch)[j + 1].updatedAt

\* C12: once StopContest has run for its contest, a subscriber's channel is
\* eventually closed and the StreamLeaderboard loop reading it returns.
C12_SubscriberEventuallyClosed ==
    \A ch \in ChanIds :
        Discarded(ch) ~> (updateChans[ch].closed /\ streams[ch].done)

\* C15: every admitted contest is eventually finished: once the clock is
\* past its ends_at, the contest becomes FINISHED and leaves the registry.
\* (The premise uses now > ends_at, the instant from which the timer's test
\* time.Now().After(EndsAt) succeeds.)
C15_EventuallyFinished ==
    \A c \in Contests :
        (c \in DOMAIN activeContests /\ now > contests[c].endsAt)
        ~> (contests[c].state = "FINISHED" /\ c \notin DOMAIN activeContests)

\* C3: every persisted submission eventually has a terminal status.
C3_EventuallyTerminal ==
    \A i \in SubmissionIds :
        (submissions[i].status # "NONE") ~> IsTerminal(submissions[i].status)

\* A job that is in the jobs queue.
Enqueued(i) == \E j \in 1..Len(jobsQueue) : jobsQueue[j] = i

\* C18: every enqueued job eventually yields a published result, also when
\* the worker that dequeued it stops or fails before publishing.
C18_JobEventuallyPublished ==
    \A i \in SubmissionIds :
        Enqueued(i) ~> (\E r \in published : r.submission = i)

\* C23: a submission whose job was enqueued while its contest was active
\* eventually has, as its persisted status, the verdict the executor
\* produced for its job.
C23_VerdictEventuallyPersisted ==
    \A i \in SubmissionIds :
        (task[<<"submit", i, 0>>].ret = "queued")
        ~> (\E r \in published :
               r.submission = i /\ submissions[i].status = r.status)


\* C1: the registry never holds more than max_concurrent_contests entries,
\* and a StartContest that finds the registry full returns an error and
\* leaves the registry unchanged.
C1_AdmissionBound ==
    /\ [](Cardinality(DOMAIN activeContests) <= maxConcurrentContests)
    /\ [][\A t \in Starters :
            (/\ task[t].pc = "start-lock"
             /\ task'[t].pc # "start-lock"
             /\ Cardinality(DOMAIN activeContests) >= maxConcurrentContests)
            => (/\ task'[t].pc = "idle"
                /\ task'[t].ret = "error"
                /\ activeContests' = activeContests)]_vars

\* C1 witness: a StartContest has been refused by a full registry while a
\* StopContest of the registered contest is under way.
C1_Witness ==
    \E t \in Starters, c \in Contests :
        /\ task[t].ret = "error"
        /\ task[t].calls > 0
        /\ startResult[t[2]] = "error"
        /\ Cardinality(DOMAIN activeContests) = maxConcurrentContests
        /\ task[<<"stop", c, 0>>].pc \in StopSites

\* C27: a ProcessSubmission call goes past the registry check only when the
\* submission's own contest is registered; a call that finds it unregistered
\* returns the error, enqueues no job and leaves the submission's status and
\* verdict message as they were stored.
C27_InactiveContestRejected ==
    [][\A i \in SubmissionIds :
          /\ (task[<<"submit", i, 0>>].pc = "submit-lookup"
              /\ task'[<<"submit", i, 0>>].pc
                   \in {"submit-load", "submit-pending"})
             => submissions[i].contest \in DOMAIN activeContests
          /\ (task[<<"submit", i, 0>>].pc = "submit-lookup"
              /\ task'[<<"submit", i, 0>>].ret = "rejected")
             => /\ jobsQueue' = jobsQueue
                /\ submissions'[i] = submissions[i]]_vars


\* C14: SubmitSolution goes on to persist a submission only when it finds
\* the contest persisted RUNNING and now < ends_at.
C14_SubmitOnlyBeforeEnd ==
    [][\A i \in SubmissionIds :
          (task[<<"submit", i, 0>>].calls = 0
           /\ task'[<<"submit", i, 0>>].pc = "submit-insert")
          => LET c == task'[<<"submit", i, 0>>].arg
             IN contests[c].state = "RUNNING" /\ now < contests[c].endsAt]_vars

\* C19: the results buffer never holds more than 10 results; a result that
\* arrives while it is full is dropped, and the arrival is never blocked.
C19_ResultBufferBounded ==
    /\ [](Len(resultChan) <= ResultChanCap)
    /\ [][(Len(resultChan) = ResultChanCap /\ pubsub' # pubsub
           /\ Len(pubsub') < Len(pubsub))
          => resultChan' = resultChan]_vars
    /\ []((pubsub # << >> /\ panicked = NoPanic) => ENABLED ForwardResult)

\* Thirteen results have arrived and none was taken by the verdict loop: ten
\* are in the buffer and three were dropped.
C19_Witness ==
    /\ Len(resultChan) = ResultChanCap
    /\ pubsub = << >>
    /\ Cardinality(published) + redeliveries > ResultChanCap
    /\ ingestLog = << >>
    /\ IngestIdle

\* C36: a facade request rejected at validation returns an error (the
\* process does not die of it), and it has created no contest, participant,
\* ProblemResult or submission row and has left the registry as it was.
C36_RejectedChangesNothing ==
    [][/\ Len(rejected') > Len(rejected)
            => UNCHANGED <<persistVars, activeContests>>
       /\ \A c \in Contests :
             /\ CreateContestWithProblemsIds(c, FALSE)
                => (task'[<<"create", c, 0>>].ret = "error"
                      => contests[c].state = "NONE")
             /\ AddProblemToContest(c, TRUE)
                => panicked' = NoPanic]_vars

\* C37: the verdict loop handles a result that names no stored submission
\* as an error: nothing persisted changes, the loop does not fault, and it
\* goes on to the next result.
C37_UnknownSubmissionSurvived ==
    [][(task[Ingest].sub = UnknownSubmission /\ IngestStep)
       => /\ UNCHANGED persistVars
          /\ panicked' = NoPanic]_vars

\* C22: when CreateContest returns a contest, the contest is persisted
\* RUNNING and each of its participants has exactly NumProblems
\* ProblemResults, one per contest problem, each NON_TRIED with
\* penalty_count = 0 and penalty_seconds = 0.
C22_CreatedContestInitialised ==
    [][\A c \in Contests :
          (GetCompleteContestData(<<"create", c, 0>>, FALSE)
           /\ task'[<<"create", c, 0>>].ret = "ok")
          => /\ contests'[c].state = "RUNNING"
             /\ \A p \in ParticipantIdx :
                   /\ Cardinality({q \in Problems :
                          problemResults'[<<c, p, q>>].status # "NONE"})
                        = NumProblems
                   /\ \A q \in Problems :
                         problemResults'[<<c, p, q>>] = NewProblemResult]_vars

\* Every registry entry other than that of contest c is left as it is by
\* the step.
OthersUntouched(c) ==
    \A d \in Contests \ {c} :
        /\ d \in DOMAIN activeContests' <=> d \in DOMAIN activeContests
        /\ d \in DOMAIN activeContests
             => activeContests'[d] = activeContests[d]

\* The run goroutines of contest c that have been launched and have not
\* returned.
RunTasks(c) ==
    {g \in Instances : task[<<"run", c, g>>].pc \notin {"none", "exited"}}

\* C30: a StartContest whose initial broadcast fails returns an error with
\* the contest out of the registry, launches no timer task, and leaves every
\* other entry of the registry as it was.
C30_BroadcastFailureRolledBack ==
    [][\A t \in Starters :
          /\ StartContest(t) => OthersUntouched(task[t].arg)
          /\ (task[t].pc = "broadcast" /\ task'[t].pc = "start-rollback")
             => UNCHANGED <<activeContests, stopChan>>
          /\ StartContestRollback(t)
             => /\ task'[t].ret = "error"
                /\ task[t].arg \notin DOMAIN activeContests'
                /\ OthersUntouched(task[t].arg)
                /\ \A g \in Instances :
                      task'[<<"run", task[t].arg, g>>]
                        = task[<<"run", task[t].arg, g>>]]_vars

\* The StartContest of a CreateContest has been rolled back, with no timer
\* task for its contest, while the other contest is registered.
C30_Witness ==
    \E c, d \in Contests :
        /\ c # d
        /\ task[<<"create", c, 0>>].ret = "error"
        /\ task[<<"start", c, 0>>].calls = 0
        /\ stopChan[c][1] = "open"
        /\ c \notin DOMAIN activeContests
        /\ RunTasks(c) = {}
        /\ d \in DOMAIN activeContests

\* C38: a contest id has at most one timer task; a StartContest for a
\* contest that is registered leaves its instance in the registry, also
\* when the call fails.
C38_OneInstancePerContest ==
    /\ [](\A c \in Contests : Cardinality(RunTasks(c)) <= 1)
    /\ [][\A t \in Starters :
             /\ (StartContest(t) /\ task[t].arg \in DOMAIN activeContests)
                => activeContests' = activeContests
             /\ (/\ StartContestRollback(t)
                 /\ task[t].arg \in DOMAIN activeContests
                 /\ activeContests[task[t].arg].inst # task[t].inst)
                => task[t].arg \in DOMAIN activeContests']_vars

\* The positions at which a task is inside a section under c.mu that spans
\* more than one step (StopContest of the second copy).
LockedSites == {"stop-state", "stop-delete"}

\* Task t has called c.mu.Lock() or c.mu.RLock() and has not yet left the
\* section it asked the lock for.
AtLock(t) == task[t].pc \in WriteSites \cup ReadSites

\* C39: the coordinator is deadlock-free: a task that asks for the registry
\* lock is given it in the end, a task holds the lock only inside its locked
\* sections, and a task sending an update goes on.
C39_DeadlockFree ==
    /\ [](\A t \in LockTasks :
             /\ mu.writer = t => task[t].pc \in LockedSites
             /\ t \in mu.readers => task[t].pc \in ReadSites)
    /\ \A t \in LockTasks :
          (AtLock(t) \/ task[t].pc = "bcast-send")
            ~> ~(AtLock(t) \/ task[t].pc = "bcast-send")

Enqueues == SelectSeq(jobLog, LAMBDA e : e.op = "enqueue")
Dequeues == SelectSeq(jobLog, LAMBDA e : e.op = "dequeue")

\* C17: the jobs channel is FIFO: jobs are dequeued in the order in which
\* they were enqueued.
C17_JobsFifo ==
    /\ Len(Dequeues) <= Len(Enqueues)
    /\ \A k \in 1..Len(Dequeues) : Dequeues[k].job = Enqueues[k].job

\* Two jobs were in the queue together and both have been dequeued.
C17_Witness ==
    /\ Len(jobLog) >= 4
    /\ jobLog[1].op = "enqueue"
    /\ jobLog[2].op = "enqueue"
    /\ Len(Dequeues) = 2

\* Worker w holds a job: DequeueExecution has popped it and MarkWorkerIdle
\* has not yet been called for it.
HoldsJob(w) == worker[w].pc # "idle"

\* The calls of jobLog with operation op on job j.
JobCalls(op, j) == SelectSeq(jobLog, LAMBDA e : e.op = op /\ e.job = j)

\* C40: with several workers, each enqueued job is returned by
\* DequeueExecution to at most one worker: no job is held by two workers,
\* and a job has at most one published result, published by the worker
\* that holds it.
C40_OneWorkerPerJob ==
    /\ [](/\ \A j \in SubmissionIds :
               Len(JobCalls("dequeue", j)) <= Len(JobCalls("enqueue", j))
          /\ \A w1 \in DOMAIN worker, w2 \in DOMAIN worker :
               (w1 # w2 /\ HoldsJob(w1) /\ HoldsJob(w2))
               => worker[w1].job # worker[w2].job
          /\ \A r1 \in published, r2 \in published :
               r1.submission = r2.submission => r1 = r2)
    /\ [][\A r \in published' \ published :
             /\ \A r0 \in published : r0.submission # r.submission
             /\ \E w \in DOMAIN worker :
                   /\ HoldsJob(w)
                   /\ worker[w].job = r.submission
                   /\ worker'[w].pc = "published"]_vars

\* C40 witness: two workers each hold a job they have dequeued.
C40_Witness ==
    \E w1 \in DOMAIN worker, w2 \in DOMAIN worker :
        /\ w1 # w2
        /\ HoldsJob(w1)
        /\ HoldsJob(w2)
        /\ Len(JobCalls("dequeue", worker[w1].job)) = 1
        /\ Len(JobCalls("dequeue", worker[w2].job)) = 1

\* C31: while a worker holds a job (from DequeueExecution's return to
\* MarkWorkerIdle) its registry entry is busy with that job's id.
C31_BusyWhileHoldingJob ==
    \A w \in DOMAIN worker :
        worker[w].pc \in {"busy", "published"}
          => /\ workerStatus[w].status = "busy"
             /\ workerStatus[w].currentJob = worker[w].job

\* C32: GetActiveWorkers returns exactly the registered workers whose last
\* ping is at most 30 s old, and CleanupStaleWorkers evicts a worker only
\* when its last ping is more than 2 min old.
C32_LiveAndStaleWindows ==
    [][/\ Len(activeWorkers') > Len(activeWorkers)
          => activeWorkers'[Len(activeWorkers')] =
                {w \in DOMAIN workerStatus :
                    /\ workerStatus[w].status # "absent"
                    /\ now - workerStatus[w].lastPing <= LiveWindowMs}
       /\ \A w \in DOMAIN workerStatus :
             (workerStatus[w].status # "absent"
                /\ workerStatus'[w].status = "absent")
               => now - workerStatus[w].lastPing > StaleAfterMs]_vars

\* The order of the leaderboard: solved descending, then
\* total_penalty_seconds ascending, then participant id ascending.
RankedBefore(rows, a, b) ==
    \/ OrderedBefore(rows, a, b)
    \/ /\ ~OrderedBefore(rows, b, a)
       /\ a < b

Ranking(rows) ==
    CHOOSE perm \in [RankedIds -> RankedIds] :
        \A j, k \in RankedIds : j < k => RankedBefore(rows, perm[j], perm[k])

\* C21: every leaderboard returned for the same participant rows lists the
\* participants in the one order given by solved descending, penalty
\* ascending, participant id ascending; two tied participants are in the
\* same relative order on every call.
C21_LeaderboardDeterministic ==
    \A j \in 1..Len(leaderboards) : leaderboards[j] = Ranking(boardRows)

\* The test cases of a request that do not pass.
FailingTests(req) ==
    {j \in 1..Len(req.outcomes) : req.outcomes[j] # "PASSED"}

\* C24: the verdict of a job whose program compiled and whose test cases
\* all ran to a result is ACCEPTED exactly when every test case passed, and
\* otherwise the classification of the first failing test case in test
\* order.
C24_FirstFailingTestDecides ==
    \A n \in 1..Len(execResults) :
        (/\ Compiles(execRequest)
         /\ \A j \in 1..Len(execRequest.outcomes) :
               execRequest.outcomes[j] # "ERROR")
        => /\ execResults[n].status = "ACCEPTED"
                <=> FailingTests(execRequest) = {}
           /\ FailingTests(execRequest) # {}
                => execResults[n].status =
                     execRequest.outcomes[
                        CHOOSE j \in FailingTests(execRequest) :
                           \A k \in FailingTests(execRequest) : j <= k]

\* C25: a C++ job whose compilation exits non-zero yields exactly one
\* ExecutionResult, with status COMPILATION_ERROR, and none of its test
\* cases is run.
C25_CompileErrorRunsNoTest ==
    (/\ execResults # << >>
     /\ execRequest.language = "CPP"
     /\ ~execRequest.compiles)
    => /\ Len(execResults) = 1
       /\ execResults[1].status = "COMPILATION_ERROR"
       /\ execResults[1].executed = 0
       /\ execResults[1].testCaseResults = << >>

\* A C++ job with test cases failed to compile and has been processed.
C25_Witness ==
    /\ execResults # << >>
    /\ execRequest.language = "CPP"
    /\ ~execRequest.compiles
    /\ Len(execRequest.outcomes) = MaxTestCases

\* C33: test cases run in request order up to the first one that is not
\* PASSED; no later test case is run, and each later one is in the per-test
\* results as NOT_EXECUTED.
C33_StopsAtFirstFailure ==
    \A n \in 1..Len(execResults) :
        (/\ Compiles(execRequest)
         /\ \A j \in 1..Len(execRequest.outcomes) :
               execRequest.outcomes[j] # "ERROR"
         /\ FailingTests(execRequest) # {})
        => LET first == CHOOSE j \in FailingTests(execRequest) :
                           \A k \in FailingTests(execRequest) : j <= k
               results == execResults[n].testCaseResults
           IN /\ execResults[n].executed = first
              /\ Len(results) = Len(execRequest.outcomes)
              /\ \A j \in 1..Len(results) :
                    results[j] = IF j <= first
                                 THEN execRequest.outcomes[j]
                                 ELSE "NOT_EXECUTED"

\* C34: a test case is classified by precedence: time limit, then memory
\* limit (whatever the exit code), then a non-zero exit, then the output:
\* PASSED when equal after trimming, PRESENTATION_ERROR when equal without
\* spaces and newlines, else WRONG_ANSWER.
C34_ClassificationPrecedence ==
    testResult # ""
      => testResult =
           IF testRun.timedOut THEN "TIME_LIMIT_EXCEEDED"
           ELSE IF testRun.memoryUsedKb > MemoryLimitMb * KbPerMb
           THEN "MEMORY_LIMIT_EXCEEDED"
           ELSE IF testRun.exitCode # 0 THEN "RUNTIME_ERROR"
           ELSE IF TrimSpace(testRun.output) = TrimSpace(testRun.expectedOutput)
           THEN "PASSED"
           ELSE IF WithoutWhitespace(testRun.output)
                     = WithoutWhitespace(testRun.expectedOutput)
           THEN "PRESENTATION_ERROR"
           ELSE "WRONG_ANSWER"

====
